---- MODULE Spec2Model ----
(***************************************************************************)
(* Fortify report extension: the multi-provider data-acquisition layer     *)
(* (FortifySSCProvider, FortifyFoDProvider) and the pipeline task that     *)
(* drives it.                                                              *)
(*                                                                         *)
(* Spec      one provider operation (validateApplicationAndVersion or      *)
(*           fetchReportData) of one provider, one step per HTTP request,  *)
(*           against a backend whose answers are chosen freely.            *)
(* TaskSpec  one execution of the task's run(), one step per provider call. *)
(***************************************************************************)
EXTENDS Integers, Sequences, FiniteSets, TLC

(***************************************************************************)
(* Program constants and model bounds                                      *)
(***************************************************************************)
\* `const limit = 100` of the SSC issues loop
SSCLimit == 100
\* `const limit = 50` of the FoD vulnerabilities loop
FoDLimit == 50
\* `maxIssues: number = 10000`
DefaultMaxIssues == 10000
\* the largest number of findings the backend holds
MaxFindings == 250
\* the longest filter-set list the backend returns
MaxFilterSets == 2

Min(a, b) == IF a < b THEN a ELSE b
Max(a, b) == IF a > b THEN a ELSE b

\* every sequence of at most n distinct elements of S
SeqsNoRep(S, n) ==
    { s \in UNION { [1..k -> S] : k \in 0..n } :
        \A i, j \in DOMAIN s : i # j => s[i] # s[j] }

(***************************************************************************)
(* The inputs of an operation and the backend's catalogue                  *)
(***************************************************************************)
ReqApp == "MyApp"
ReqVersion == "1.0"

\* the projects/applications a search for ReqApp may return: the search is
\* a partial match, so every name contains ReqApp
Apps ==
    { [name |-> "MyApp", id |-> 42], [name |-> "MyApp2", id |-> 43] }

\* the versions/releases of project p a search for ReqVersion may return
VersionsOf(p) ==
    IF p = 42
    THEN { [name |-> "1.0", id |-> 7], [name |-> "1.0-beta", id |-> 8] }
    ELSE { [name |-> "1.0", id |-> 9], [name |-> "1.0-beta", id |-> 10] }

\* filter sets of a version
FilterSetCatalogue ==
    { [guid |-> "g-sa", title |-> "Security Auditor View", defaultFilterSet |-> FALSE],
      [guid |-> "g-quick", title |-> "Quick View", defaultFilterSet |-> TRUE],
      [guid |-> "g-dev", title |-> "Developer View", defaultFilterSet |-> FALSE] }

FindingsChoices == { 0, 3, SSCLimit + 20, MaxFindings }
MaxIssuesChoices == { 1, FoDLimit + 25, DefaultMaxIssues }

(***************************************************************************)
(* JavaScript values                                                       *)
(***************************************************************************)
Undefined == [type |-> "undefined", text |-> ""]
JsNum(n) == [type |-> "number", text |-> ToString(n)]
JsStr(s) == [type |-> "string", text |-> s]
\* Number.prototype.toString
toString(n) == JsStr(ToString(n))

\* Array.prototype.find, given the set of the indices whose element satisfies
\* the callback: the first of them, 0 if none
FindIndex(hits) ==
    IF hits = {} THEN 0 ELSE CHOOSE i \in hits : \A j \in hits : i <= j

\* String.prototype.includes
includes(hay, needle) ==
    \E i \in 1..(Len(hay) - Len(needle) + 1) :
        SubSeq(hay, i, i + Len(needle) - 1) = needle

\* items.map(e => e.name).join(', ')
RECURSIVE JoinNames(_)
JoinNames(items) ==
    IF Len(items) = 0 THEN ""
    ELSE IF Len(items) = 1 THEN items[1].name
    ELSE items[1].name \o ", " \o JoinNames(Tail(items))

(***************************************************************************)
(* HTTP: what the network hands to makeRequest, and what makeRequest makes *)
(* of it                                                                   *)
(***************************************************************************)
NoResponse == [shape |-> "none", list |-> <<>>]
NullBody == [shape |-> "null", list |-> <<>>]
NoListBody == [shape |-> "nolist", list |-> <<>>]
ListBody(l) == [shape |-> "list", list |-> l]

RawOk(body) ==
    [kind |-> "response", status |-> 200, parses |-> TRUE, body |-> body, message |-> ""]
RawNonJson ==
    [kind |-> "response", status |-> 200, parses |-> FALSE, body |-> NullBody, message |-> ""]
RawHttp(status, parses, message) ==
    [kind |-> "response", status |-> status, parses |-> parses, body |-> NullBody, message |-> message]
RawTimeout ==
    [kind |-> "timeout", status |-> 0, parses |-> FALSE, body |-> NullBody, message |-> ""]
RawNetError ==
    [kind |-> "error", status |-> 0, parses |-> FALSE, body |-> NullBody, message |-> ""]
\* the token exchange run by makeRequest when the FoD token is not valid fails
RawAuthFail ==
    [kind |-> "authfail", status |-> 0, parses |-> FALSE, body |-> NullBody, message |-> ""]

RawFailures(prov) ==
    { RawNonJson, RawTimeout, RawNetError,
      RawHttp(500, FALSE, ""), RawHttp(401, TRUE, "Unauthorized") }
    \cup (IF prov = "fod" THEN { RawAuthFail } ELSE {})

Resolve(json) == [ok |-> TRUE, json |-> json, error |-> ""]
Reject(error) == [ok |-> FALSE, json |-> NoResponse, error |-> error]

\* res.statusMessage
StatusMessage(status) ==
    IF status = 401 THEN "Unauthorized"
    ELSE IF status = 500 THEN "Internal Server Error"
    ELSE "OK"

ProductName(prov) ==
    IF prov = "fod" THEN "Fortify on Demand" ELSE "Fortify SSC"

makeRequest(prov, raw) ==
    IF raw.kind = "authfail"
    THEN Reject("FoD authentication failed: invalid_client")
    ELSE IF raw.kind = "timeout"
    THEN Reject("Request timeout - " \o ProductName(prov)
                    \o " did not respond within 30 seconds")
    ELSE IF raw.kind = "error"
    THEN Reject("Network error: connect ECONNREFUSED")
    ELSE IF raw.status >= 200 /\ raw.status < 300
    THEN IF raw.parses
         THEN Resolve(raw.body)
         ELSE Reject("Invalid JSON response from " \o ProductName(prov))
    ELSE IF raw.parses /\ raw.message # ""
    THEN Reject(raw.message)
    ELSE Reject("HTTP " \o ToString(raw.status) \o ": " \o StatusMessage(raw.status))

\* `!response?.data || response.data.length === 0` (`items` for FoD)
Missing(json) == json.shape # "list" \/ Len(json.list) = 0

\* the answers to a search over the entries S: any body, any failure
SearchRaw(prov, S) ==
    { RawOk(b) : b \in { NullBody, NoListBody }
                     \cup { ListBody(l) : l \in SeqsNoRep(S, Cardinality(S)) } }
    \cup RawFailures(prov)

\* the answers to the filter-set request
FilterSetRaw(prov) ==
    { RawOk(b) : b \in { NullBody, NoListBody }
                     \cup { ListBody(l) : l \in SeqsNoRep(FilterSetCatalogue, MaxFilterSets) } }
    \cup RawFailures(prov)

\* the raw findings start+1 .. start+n, in the backend's order
Items(from, n) == [j \in 1..n |-> from + j]

\* how many findings a backend holding `total` may put in the page asked at
\* `from` with `limit`: none, two, what an honest backend returns, or one
\* more than was asked for
PageCounts(total, from, limit) ==
    { n \in { 0, 2, Min(Max(total - from, 0), limit), limit + 1 } :
        n <= Max(total - from, 0) }

PageRaw(prov, total, from, limit) ==
    { RawOk(b) : b \in { NullBody, NoListBody }
                     \cup { ListBody(Items(from, n)) : n \in PageCounts(total, from, limit) } }
    \cup RawFailures(prov)

(***************************************************************************)
(* Results                                                                 *)
(***************************************************************************)
NoResult ==
    [kind |-> "none", success |-> FALSE, applicationId |-> Undefined,
     versionId |-> Undefined, error |-> "", issues |-> <<>>, totalCount |-> 0,
     projectVersionId |-> Undefined]

\* a faulty variant of ValidationOk, for sensitivity checks: the application's
\* id is returned as the version's
ValidationOkAppAsVersion(appId, verId) ==
    [NoResult EXCEPT !.kind = "validation", !.success = TRUE,
                     !.applicationId = toString(appId), !.versionId = toString(appId)]

\* { success: true, applicationId: applicationId.toString(), versionId: versionId.toString() }
ValidationOk(appId, verId) ==
    [NoResult EXCEPT !.kind = "validation", !.success = TRUE,
                     !.applicationId = toString(appId), !.versionId = toString(verId)]

\* a faulty variant of ValidationFail, for sensitivity checks: the failure keeps an id
ValidationFailWithId(error) ==
    [NoResult EXCEPT !.kind = "validation", !.error = error, !.applicationId = toString(42)]

\* { success: false, error }
ValidationFail(error) ==
    [NoResult EXCEPT !.kind = "validation", !.error = error]

\* the ReportData object literal of fetchReportData
\* a faulty variant of ReportData, for sensitivity checks: totalCount is not set
ReportDataNoCount(issues, pvid) ==
    [NoResult EXCEPT !.kind = "report", !.success = TRUE, !.issues = issues,
                     !.projectVersionId = pvid]

\* the ReportData fetchReportData returns (totalCount: allIssues.length)
ReportData(issues, pvid) ==
    [NoResult EXCEPT !.kind = "report", !.success = TRUE, !.issues = issues,
                     !.totalCount = Len(issues), !.projectVersionId = pvid]

\* fetchReportData rejects
Thrown(error) ==
    [NoResult EXCEPT !.kind = "thrown", !.error = error]

\* a faulty variant of NextStart, for sensitivity checks: the offset advances
\* by the number of items received
NextStartByReceived(from, limit, received) == from + received

\* `start += limit` / `offset += limit` after a page was collected
NextStart(from, limit, received) == from + limit

\* a faulty variant of slice, for sensitivity checks: the collection is returned uncut
sliceNone(s, n) == s

\* Array.prototype.slice(0, n)
slice(s, n) == SubSeq(s, 1, Min(Len(s), n))

(***************************************************************************)
(* State                                                                   *)
(***************************************************************************)
VARIABLES
    provider,         \* "ssc" | "fod"
    op,               \* "validate" (validateApplicationAndVersion) | "fetch" (fetchReportData)
    pc,               \* the request the operation is about to send, or "done"
    maxIssues,        \* fetchReportData's cap
    findings,         \* how many findings the backend holds for the version
    appResponse,      \* body of the project/application search
    versionResponse,  \* body of the version/release search
    filterResponse,   \* body of the filter-set request (SSC)
    applicationId,    \* applicationId / projectId
    versionId,        \* versionId / releaseId
    filterSetGuid,    \* securityAuditorGuid
    allIssues,        \* allIssues / allVulns
    start,            \* start (SSC) / offset (FoD)
    log,              \* every request sent, with what came back
    result            \* what the operation returned or threw

VARIABLES
    inputs,               \* the task's inputs and pipeline variables
    tpc,                  \* the provider call run() is about to make, or "done"
    fortifyConfig,        \* fortifyConfig
    taskMaxIssues,        \* run()'s maxIssues
    skipValidation,       \* run()'s skipValidation
    calls,                \* the provider operations run() has called, in order
    connectionResult,     \* connectionResult
    appVersionResult,     \* appVersionResult
    reportData,           \* reportData (kind "none" for null)
    hasValidationErrors,  \* hasValidationErrors
    messages,             \* what tl.warning and tl.error were given, in order
    console,              \* the console.log lines that interpolate a credential field
    fetchError,           \* message of the fetchError caught around fetchReportData ("" if none)
    configFile,           \* the content of fortify-config.json (kind "none" before it is written)
    attachments,          \* the attachments added with tl.addAttachment, in order
    taskResult            \* the last tl.setResult: its result and message

inputVars == <<provider, op, maxIssues, findings>>
resolveVars == <<appResponse, versionResponse, applicationId, versionId>>
fetchVars == <<filterResponse, filterSetGuid, allIssues, start>>
providerVars == <<inputVars, resolveVars, fetchVars, pc, log, result>>

taskVars ==
    <<inputs, tpc, fortifyConfig, taskMaxIssues, skipValidation, calls, connectionResult,
      appVersionResult, reportData, hasValidationErrors, messages, fetchError,
      configFile, attachments, taskResult, console>>

\* the state of one authentication strategy and of its caller
VARIABLES
    strategy,        \* "ssc" (SSCTokenAuthStrategy) | "fod" (FoDApiKeyAuthStrategy)
    ciToken,         \* this.ciToken
    apiKey,          \* this.apiKey
    apiSecret,       \* this.apiSecret
    accessToken,     \* this.accessToken
    tokenExpiry,     \* this.tokenExpiry
    now,             \* the clock, in milliseconds (Date.now())
    tokenRequests,   \* how many requests the token endpoint has received
    granted,         \* the last token granted: when, and its expires_in
    authResult,      \* how the last authenticate() or refresh() ended
    validResult,     \* what the last isValid() returned, and when
    headersResult,   \* what the last getAuthHeaders() returned or threw
    apiRequest       \* the last FoD API request makeRequest sent, or why it sent none

authVars ==
    <<strategy, ciToken, apiKey, apiSecret, accessToken, tokenExpiry, now, tokenRequests,
      granted, authResult, validResult, headersResult, apiRequest>>

\* one raw finding, its normalisation and the links built for it
VARIABLES
    mapProvider,     \* "ssc" | "fod": whose mapping is applied
    mapBaseUrl,      \* this.baseUrl / config.baseUrl
    finding,         \* the raw finding (FoDVulnerability / SSCIssue)
    issue,           \* the SecurityIssue it is mapped to
    providerUrl,     \* what the provider's generateIssueUrl returned
    panelUrl         \* what the report panel's generateIssueUrl returned

mapVars == <<mapProvider, mapBaseUrl, finding, issue, providerUrl, panelUrl>>

\* one configuration and what the provider factory made of it
VARIABLES
    factoryConfig,   \* the FortifyConfig handed to the factory
    factoryCall,     \* which factory function was applied, and how its import went
    factoryCreated,  \* what createProvider returned or threw
    factoryErrors,   \* what validateProviderConfig returned
    factoryDetected  \* what detectProviderType returned

factoryVars == <<factoryConfig, factoryCall, factoryCreated, factoryErrors, factoryDetected>>

\* the report panel of the build results tab: the properties and state of the
\* FortifyReportPanel component and the loadReportData calls in flight
VARIABLES
    panelMounted,      \* ReactDOM.render has run once
    panelClient,       \* props.attachmentClient
    panelReportData,   \* state.reportData
    panelLoading,      \* state.loading
    panelError,        \* state.error
    filteredIssues,    \* state.filteredIssues
    severityFilter,    \* state.severityFilter
    panelConfig,       \* state.config
    loads,             \* the loadReportData calls waiting at an await
    started            \* number of loadReportData calls made so far

panelVars ==
    <<panelMounted, panelClient, panelReportData, panelLoading, panelError,
      filteredIssues, severityFilter, panelConfig, loads, started>>

nonProviderVars == <<taskVars, authVars, mapVars, factoryVars, panelVars>>
nonTaskVars == <<providerVars, authVars, mapVars, factoryVars, panelVars>>
nonAuthVars == <<providerVars, taskVars, mapVars, factoryVars, panelVars>>
nonMapVars == <<providerVars, taskVars, authVars, factoryVars, panelVars>>
nonFactoryVars == <<providerVars, taskVars, authVars, mapVars, panelVars>>
nonPanelVars == <<providerVars, taskVars, authVars, mapVars, factoryVars>>

vars == <<providerVars, taskVars, authVars, mapVars, factoryVars, panelVars>>

ProviderInit ==
    /\ provider \in { "ssc", "fod" }
    /\ op \in { "validate", "fetch", "connect" }
    /\ pc = (IF op = "connect" THEN "test" ELSE "app")
    /\ IF op = "fetch"
       THEN maxIssues \in MaxIssuesChoices /\ findings \in FindingsChoices
       ELSE maxIssues = DefaultMaxIssues /\ findings = 0
    /\ appResponse = NoResponse
    /\ versionResponse = NoResponse
    /\ filterResponse = NoResponse
    /\ applicationId = 0
    /\ versionId = 0
    /\ filterSetGuid = ""
    /\ allIssues = <<>>
    /\ start = 0
    /\ log = <<>>
    /\ result = NoResult

\* one line of the log
Sent(what, from, raw) ==
    [what |-> what, start |-> from, kind |-> raw.kind, status |-> raw.status,
     parses |-> raw.parses, shape |-> raw.body.shape, count |-> Len(raw.body.list)]

Finish(res) ==
    /\ result' = res
    /\ pc' = "done"

(***************************************************************************)
(* FortifySSCProvider                                                      *)
(***************************************************************************)
\* `response.data[0].id`: the first entry of the search result
SSCFirstId(data) == data[1].id

\* response.data.find(fs => fs.defaultFilterSet === true ||
\*                          fs.title.includes('Security Auditor')), else data[0]
SSCSelectFilterSet(data) ==
    LET i == FindIndex({ k \in 1..Len(data) :
                 data[k].defaultFilterSet
                     \/ includes(data[k].title, "Security Auditor") })
    IN  IF i = 0 THEN data[1].guid ELSE data[i].guid

\* validateApplicationAndVersion: the project search
SSC_validate_app ==
    /\ provider = "ssc" /\ op = "validate" /\ pc = "app"
    /\ \E raw \in SearchRaw(provider, Apps) :
         LET r == makeRequest(provider, raw) IN
         /\ log' = Append(log, Sent("app", 0, raw))
         /\ appResponse' = r.json
         /\ IF ~r.ok
            THEN /\ Finish(ValidationFail("Validation failed: " \o r.error))
                 /\ UNCHANGED applicationId
            ELSE IF Missing(r.json)
            THEN /\ Finish(ValidationFail("Application \"" \o ReqApp \o "\" not found in Fortify SSC"))
                 /\ UNCHANGED applicationId
            ELSE /\ applicationId' = SSCFirstId(r.json.list)
                 /\ pc' = "version"
                 /\ UNCHANGED result
    /\ UNCHANGED <<inputVars, versionResponse, versionId, fetchVars, nonProviderVars>>

\* validateApplicationAndVersion: the version search
SSC_validate_version ==
    /\ provider = "ssc" /\ op = "validate" /\ pc = "version"
    /\ \E raw \in SearchRaw(provider, VersionsOf(applicationId)) :
         LET r == makeRequest(provider, raw) IN
         /\ log' = Append(log, Sent("version", 0, raw))
         /\ versionResponse' = r.json
         /\ IF ~r.ok
            THEN /\ Finish(ValidationFail("Validation failed: " \o r.error))
                 /\ UNCHANGED versionId
            ELSE IF Missing(r.json)
            THEN /\ pc' = "enumerate"
                 /\ UNCHANGED <<versionId, result>>
            ELSE /\ versionId' = SSCFirstId(r.json.list)
                 /\ Finish(ValidationOk(applicationId, SSCFirstId(r.json.list)))
    /\ UNCHANGED <<inputVars, appResponse, applicationId, fetchVars, nonProviderVars>>

\* validateApplicationAndVersion: listing the versions for the diagnostic
SSC_validate_enumerate ==
    /\ provider = "ssc" /\ op = "validate" /\ pc = "enumerate"
    /\ \E raw \in SearchRaw(provider, VersionsOf(applicationId)) :
         LET r == makeRequest(provider, raw) IN
         /\ log' = Append(log, Sent("enumerate", 0, raw))
         /\ IF ~r.ok
            THEN Finish(ValidationFail(
                     "Version \"" \o ReqVersion \o "\" not found for application \"" \o ReqApp \o "\""))
            ELSE Finish(ValidationFail(
                     "Version \"" \o ReqVersion \o "\" not found. Available versions: "
                     \o (IF Missing(r.json) THEN "none" ELSE JoinNames(r.json.list))))
    /\ UNCHANGED <<inputVars, resolveVars, fetchVars, nonProviderVars>>

\* fetchReportData: the project search
SSC_fetch_project ==
    /\ provider = "ssc" /\ op = "fetch" /\ pc = "app"
    /\ \E raw \in SearchRaw(provider, Apps) :
         LET r == makeRequest(provider, raw) IN
         /\ log' = Append(log, Sent("app", 0, raw))
         /\ appResponse' = r.json
         /\ IF ~r.ok
            THEN /\ Finish(Thrown(r.error))
                 /\ UNCHANGED applicationId
            ELSE IF Missing(r.json)
            THEN /\ Finish(Thrown("Application \"" \o ReqApp \o "\" not found"))
                 /\ UNCHANGED applicationId
            ELSE /\ applicationId' = SSCFirstId(r.json.list)
                 /\ pc' = "version"
                 /\ UNCHANGED result
    /\ UNCHANGED <<inputVars, versionResponse, versionId, fetchVars, nonProviderVars>>

\* fetchReportData: the version search
SSC_fetch_version ==
    /\ provider = "ssc" /\ op = "fetch" /\ pc = "version"
    /\ \E raw \in SearchRaw(provider, VersionsOf(applicationId)) :
         LET r == makeRequest(provider, raw) IN
         /\ log' = Append(log, Sent("version", 0, raw))
         /\ versionResponse' = r.json
         /\ IF ~r.ok
            THEN /\ Finish(Thrown(r.error))
                 /\ UNCHANGED versionId
            ELSE IF Missing(r.json)
            THEN /\ Finish(Thrown("Version \"" \o ReqVersion \o "\" not found"))
                 /\ UNCHANGED versionId
            ELSE /\ versionId' = SSCFirstId(r.json.list)
                 /\ pc' = "filterSets"
                 /\ UNCHANGED result
    /\ UNCHANGED <<inputVars, appResponse, applicationId, fetchVars, nonProviderVars>>

\* fetchReportData: findSecurityAuditorFilterSet
SSC_findSecurityAuditorFilterSet ==
    /\ provider = "ssc" /\ op = "fetch" /\ pc = "filterSets"
    /\ \E raw \in FilterSetRaw(provider) :
         LET r == makeRequest(provider, raw) IN
         /\ log' = Append(log, Sent("filterSets", 0, raw))
         /\ filterResponse' = r.json
         /\ IF ~r.ok
            THEN /\ Finish(Thrown(r.error))
                 /\ UNCHANGED filterSetGuid
            ELSE IF r.json.shape = "null"
            THEN /\ Finish(Thrown("Cannot read properties of null (reading 'data')"))
                 /\ UNCHANGED filterSetGuid
            ELSE IF Missing(r.json)
            THEN /\ Finish(Thrown("No filter sets found for this project version"))
                 /\ UNCHANGED filterSetGuid
            ELSE /\ filterSetGuid' = SSCSelectFilterSet(r.json.list)
                 /\ pc' = "pages"
                 /\ UNCHANGED result
    /\ UNCHANGED <<inputVars, resolveVars, allIssues, start, nonProviderVars>>

\* a faulty variant of SSCPageEnds, for sensitivity checks: a short page does not end the loop
SSCPageEndsNoShort(collected, n, cap) == collected >= cap

\* fetchAllIssuesWithSecurityAuditorMapping: whether the loop leaves after a
\* page of n issues brought the collection to `collected`
SSCPageEnds(collected, n, cap) == collected >= cap \/ n < SSCLimit

\* fetchReportData: one iteration of the loop of
\* fetchAllIssuesWithSecurityAuditorMapping, and the return when it leaves
SSC_fetchAllIssues ==
    /\ provider = "ssc" /\ op = "fetch" /\ pc = "pages"
    /\ Len(allIssues) < maxIssues
    /\ \E raw \in PageRaw(provider, findings, start, SSCLimit) :
         LET r == makeRequest(provider, raw) IN
         /\ log' = Append(log, Sent("page", start, raw))
         /\ IF ~r.ok
            THEN /\ Finish(Thrown(r.error))
                 /\ UNCHANGED <<allIssues, start>>
            ELSE IF r.json.shape = "null"
            THEN /\ Finish(Thrown("Cannot read properties of null (reading 'data')"))
                 /\ UNCHANGED <<allIssues, start>>
            ELSE IF Missing(r.json)
            THEN /\ Finish(ReportData(slice(allIssues, maxIssues), JsNum(versionId)))
                 /\ UNCHANGED <<allIssues, start>>
            ELSE LET all == allIssues \o r.json.list IN
                 /\ allIssues' = all
                 /\ start' = NextStart(start, SSCLimit, Len(r.json.list))
                 /\ IF SSCPageEnds(Len(all), Len(r.json.list), maxIssues)
                    THEN Finish(ReportData(slice(all, maxIssues), JsNum(versionId)))
                    ELSE UNCHANGED <<pc, result>>
    /\ UNCHANGED <<inputVars, resolveVars, filterResponse, filterSetGuid, nonProviderVars>>

SSCNext ==
    \/ SSC_validate_app
    \/ SSC_validate_version
    \/ SSC_validate_enumerate
    \/ SSC_fetch_project
    \/ SSC_fetch_version
    \/ SSC_findSecurityAuditorFilterSet
    \/ SSC_fetchAllIssues

(***************************************************************************)
(* FortifyFoDProvider                                                      *)
(***************************************************************************)
\* a faulty variant of FoDExactMatch, for sensitivity checks: the first entry of the partial-match result
FoDFirstMatch(items, name) == IF Len(items) = 0 THEN 0 ELSE 1

\* items.find(e => e.applicationName === appName) (releaseName for releases):
\* the index of the match, 0 for undefined
FoDExactMatch(items, name) == FindIndex({ k \in 1..Len(items) : items[k].name = name })

\* validateApplicationAndVersion: the application search
FoD_validate_app ==
    /\ provider = "fod" /\ op = "validate" /\ pc = "app"
    /\ \E raw \in SearchRaw(provider, Apps) :
         LET r == makeRequest(provider, raw)
             exactMatch == FoDExactMatch(r.json.list, ReqApp)
         IN
         /\ log' = Append(log, Sent("app", 0, raw))
         /\ appResponse' = r.json
         /\ IF ~r.ok
            THEN /\ Finish(ValidationFail("Validation failed: " \o r.error))
                 /\ UNCHANGED applicationId
            ELSE IF Missing(r.json)
            THEN /\ Finish(ValidationFail(
                         "Application \"" \o ReqApp \o "\" not found in Fortify on Demand"))
                 /\ UNCHANGED applicationId
            ELSE IF exactMatch = 0
            THEN /\ Finish(ValidationFail(
                         "Exact application name \"" \o ReqApp \o "\" not found. Did you mean: "
                         \o JoinNames(r.json.list) \o "?"))
                 /\ UNCHANGED applicationId
            ELSE /\ applicationId' = r.json.list[exactMatch].id
                 /\ pc' = "version"
                 /\ UNCHANGED result
    /\ UNCHANGED <<inputVars, versionResponse, versionId, fetchVars, nonProviderVars>>

\* validateApplicationAndVersion: the release search
FoD_validate_release ==
    /\ provider = "fod" /\ op = "validate" /\ pc = "version"
    /\ \E raw \in SearchRaw(provider, VersionsOf(applicationId)) :
         LET r == makeRequest(provider, raw)
             exactReleaseMatch == FoDExactMatch(r.json.list, ReqVersion)
         IN
         /\ log' = Append(log, Sent("version", 0, raw))
         /\ versionResponse' = r.json
         /\ IF ~r.ok
            THEN /\ Finish(ValidationFail("Validation failed: " \o r.error))
                 /\ UNCHANGED versionId
            ELSE IF Missing(r.json)
            THEN /\ pc' = "enumerate"
                 /\ UNCHANGED <<versionId, result>>
            ELSE IF exactReleaseMatch = 0
            THEN /\ Finish(ValidationFail(
                         "Exact release name \"" \o ReqVersion \o "\" not found. Did you mean: "
                         \o JoinNames(r.json.list) \o "?"))
                 /\ UNCHANGED versionId
            ELSE /\ versionId' = r.json.list[exactReleaseMatch].id
                 /\ Finish(ValidationOk(applicationId, r.json.list[exactReleaseMatch].id))
    /\ UNCHANGED <<inputVars, appResponse, applicationId, fetchVars, nonProviderVars>>

\* validateApplicationAndVersion: listing the releases for the diagnostic
FoD_validate_enumerate ==
    /\ provider = "fod" /\ op = "validate" /\ pc = "enumerate"
    /\ \E raw \in SearchRaw(provider, VersionsOf(applicationId)) :
         LET r == makeRequest(provider, raw) IN
         /\ log' = Append(log, Sent("enumerate", 0, raw))
         /\ IF ~r.ok
            THEN Finish(ValidationFail(
                     "Release \"" \o ReqVersion \o "\" not found for application \"" \o ReqApp \o "\""))
            ELSE Finish(ValidationFail(
                     "Release \"" \o ReqVersion \o "\" not found. Available releases: "
                     \o (IF Missing(r.json) THEN "none" ELSE JoinNames(r.json.list))))
    /\ UNCHANGED <<inputVars, resolveVars, fetchVars, nonProviderVars>>

\* fetchReportData: the application search
FoD_fetch_app ==
    /\ provider = "fod" /\ op = "fetch" /\ pc = "app"
    /\ \E raw \in SearchRaw(provider, Apps) :
         LET r == makeRequest(provider, raw)
             exactAppMatch == FoDExactMatch(r.json.list, ReqApp)
         IN
         /\ log' = Append(log, Sent("app", 0, raw))
         /\ appResponse' = r.json
         /\ IF ~r.ok
            THEN /\ Finish(Thrown(r.error))
                 /\ UNCHANGED applicationId
            ELSE IF Missing(r.json)
            THEN /\ Finish(Thrown("Application \"" \o ReqApp \o "\" not found"))
                 /\ UNCHANGED applicationId
            ELSE IF exactAppMatch = 0
            THEN /\ Finish(Thrown(
                         "Exact application name \"" \o ReqApp \o "\" not found. Did you mean: "
                         \o JoinNames(r.json.list) \o "?"))
                 /\ UNCHANGED applicationId
            ELSE /\ applicationId' = r.json.list[exactAppMatch].id
                 /\ pc' = "version"
                 /\ UNCHANGED result
    /\ UNCHANGED <<inputVars, versionResponse, versionId, fetchVars, nonProviderVars>>

\* fetchReportData: the release search
FoD_fetch_release ==
    /\ provider = "fod" /\ op = "fetch" /\ pc = "version"
    /\ \E raw \in SearchRaw(provider, VersionsOf(applicationId)) :
         LET r == makeRequest(provider, raw)
             exactReleaseMatch == FoDExactMatch(r.json.list, ReqVersion)
         IN
         /\ log' = Append(log, Sent("version", 0, raw))
         /\ versionResponse' = r.json
         /\ IF ~r.ok
            THEN /\ Finish(Thrown(r.error))
                 /\ UNCHANGED versionId
            ELSE IF Missing(r.json)
            THEN /\ Finish(Thrown("Release \"" \o ReqVersion \o "\" not found"))
                 /\ UNCHANGED versionId
            ELSE IF exactReleaseMatch = 0
            THEN /\ Finish(Thrown(
                         "Exact release name \"" \o ReqVersion \o "\" not found. Did you mean: "
                         \o JoinNames(r.json.list) \o "?"))
                 /\ UNCHANGED versionId
            ELSE /\ versionId' = r.json.list[exactReleaseMatch].id
                 /\ pc' = "pages"
                 /\ UNCHANGED result
    /\ UNCHANGED <<inputVars, appResponse, applicationId, fetchVars, nonProviderVars>>

\* a faulty variant of FoDPageEnds, for sensitivity checks: a short page does not end the loop
FoDPageEndsNoShort(collected, n, cap) == collected >= cap

\* fetchAllVulnerabilities: whether the loop leaves after a page of n items
\* brought the collection to `collected`
FoDPageEnds(collected, n, cap) == collected >= cap \/ n < FoDLimit

\* a faulty variant of OffsetAtCatch, for sensitivity checks: the offset was
\* advanced before the request was awaited
OffsetAtCatchAdvanced(from, limit) == from + limit

\* the value of `offset` when the catch block runs for a rejected request:
\* `offset += limit` comes after the await and was not reached
OffsetAtCatch(from, limit) == from

\* a faulty variant of FoDPageFailure, for sensitivity checks: the pages collected so far are returned
FoDPageFailureSwallow(from, error) ==
    ReportData(slice(allIssues, maxIssues), toString(versionId))

\* what the catch block of the loop does with a rejected page request
FoDPageFailure(from, error) ==
    Thrown("Failed to fetch vulnerabilities at offset " \o ToString(from) \o ": " \o error)

\* fetchReportData: one iteration of the loop of fetchAllVulnerabilities, and
\* the return when it leaves
FoD_fetchAllVulnerabilities ==
    /\ provider = "fod" /\ op = "fetch" /\ pc = "pages"
    /\ Len(allIssues) < maxIssues
    /\ \E raw \in PageRaw(provider, findings, start, FoDLimit) :
         LET r == makeRequest(provider, raw) IN
         /\ log' = Append(log, Sent("page", start, raw))
         /\ IF ~r.ok
            THEN /\ Finish(FoDPageFailure(OffsetAtCatch(start, FoDLimit), r.error))
                 /\ UNCHANGED <<allIssues, start>>
            ELSE IF r.json.shape = "null" \/ Missing(r.json)
            THEN /\ Finish(ReportData(slice(allIssues, maxIssues), toString(versionId)))
                 /\ UNCHANGED <<allIssues, start>>
            ELSE LET all == allIssues \o r.json.list IN
                 /\ allIssues' = all
                 /\ start' = NextStart(start, FoDLimit, Len(r.json.list))
                 /\ IF FoDPageEnds(Len(all), Len(r.json.list), maxIssues)
                    THEN Finish(ReportData(slice(all, maxIssues), toString(versionId)))
                    ELSE UNCHANGED <<pc, result>>
    /\ UNCHANGED <<inputVars, resolveVars, filterResponse, filterSetGuid, nonProviderVars>>

FoDNext ==
    \/ FoD_validate_app
    \/ FoD_validate_release
    \/ FoD_validate_enumerate
    \/ FoD_fetch_app
    \/ FoD_fetch_release
    \/ FoD_fetchAllVulnerabilities

(***************************************************************************)
(* FortifyProviderFactory                                                  *)
(***************************************************************************)
\* validateProviderConfig: the list of violations
\* a faulty variant of validateProviderConfig, for sensitivity checks: it
\* stops at the first missing field
validateProviderConfigFirstOnly(config) ==
    IF config.baseUrl = "" THEN <<"Base URL is required">>
    ELSE IF config.appName = "" THEN <<"Application name is required">>
    ELSE IF config.appVersion = "" THEN <<"Application version is required">>
    ELSE IF config.providerType = "ssc"
    THEN (IF config.ciToken = "" THEN <<"CI Token is required for SSC provider">> ELSE <<>>)
    ELSE IF config.providerType = "fod"
    THEN (IF config.apiKey = "" THEN <<"API Key is required for FoD provider">>
          ELSE IF config.apiSecret = "" THEN <<"API Secret is required for FoD provider">>
          ELSE <<>>)
    ELSE <<"Unsupported provider type: " \o config.providerType>>

validateProviderConfig(config) ==
    (IF config.baseUrl = "" THEN <<"Base URL is required">> ELSE <<>>)
    \o (IF config.appName = "" THEN <<"Application name is required">> ELSE <<>>)
    \o (IF config.appVersion = "" THEN <<"Application version is required">> ELSE <<>>)
    \o (IF config.providerType = "ssc"
        THEN (IF config.ciToken = "" THEN <<"CI Token is required for SSC provider">> ELSE <<>>)
        ELSE IF config.providerType = "fod"
        THEN (IF config.apiKey = "" THEN <<"API Key is required for FoD provider">> ELSE <<>>)
             \o (IF config.apiSecret = ""
                 THEN <<"API Secret is required for FoD provider">> ELSE <<>>)
        ELSE <<"Unsupported provider type: " \o config.providerType>>)

\* a faulty variant of createProvider, for sensitivity checks: a FoD
\* configuration is accepted with an API key alone
createProviderKeyOnly(config, importFails) ==
    IF config.providerType = "ssc" /\ config.ciToken # "" /\ ~importFails
    THEN [threw |-> FALSE, error |-> "", providerType |-> "ssc"]
    ELSE IF config.providerType = "fod" /\ config.apiKey # "" /\ ~importFails
    THEN [threw |-> FALSE, error |-> "", providerType |-> "fod"]
    ELSE [threw |-> TRUE, error |-> "createProvider failed", providerType |-> ""]

\* a faulty variant of detectProviderType, for sensitivity checks: complete
\* FoD credentials win over a CI token
detectProviderTypeFoDFirst(config) ==
    IF config.providerType # "" THEN config.providerType
    ELSE IF config.apiKey # "" /\ config.apiSecret # "" THEN "fod"
    ELSE "ssc"

\* detectProviderType
detectProviderType(config) ==
    IF config.providerType # "" THEN config.providerType
    ELSE IF config.ciToken # "" THEN "ssc"
    ELSE IF config.apiKey # "" /\ config.apiSecret # "" THEN "fod"
    ELSE "ssc"

\* createProvider: the kind of the provider built, or the error thrown;
\* importFails: the dynamic import of the provider module rejects
createProvider(config, importFails) ==
    IF config.providerType = "ssc"
    THEN IF config.ciToken = ""
         THEN [threw |-> TRUE, error |-> "CI Token is required for Fortify SSC provider",
               providerType |-> ""]
         ELSE IF importFails
         THEN [threw |-> TRUE, error |-> "Cannot find module './fortify-ssc-provider'",
               providerType |-> ""]
         ELSE [threw |-> FALSE, error |-> "", providerType |-> "ssc"]
    ELSE IF config.providerType = "fod"
    THEN IF config.apiKey = "" \/ config.apiSecret = ""
         THEN [threw |-> TRUE,
               error |-> "API Key and Secret are required for Fortify on Demand provider",
               providerType |-> ""]
         ELSE IF importFails
         THEN [threw |-> TRUE, error |-> "Cannot find module './fortify-fod-provider'",
               providerType |-> ""]
         ELSE [threw |-> FALSE, error |-> "", providerType |-> "fod"]
    ELSE [threw |-> TRUE, error |-> "Unsupported provider type: " \o config.providerType,
          providerType |-> ""]

(***************************************************************************)
(* The pipeline task: createFortifyConfigFromInputs and run                *)
(***************************************************************************)
\* a JavaScript value is truthy
Truthy(v) == v.type # "undefined" /\ v.text # ""

\* String.prototype.toUpperCase of a provider type
toUpperCase(providerType) == IF providerType = "fod" THEN "FOD" ELSE "SSC"

Digits == <<"0", "1", "2", "3", "4", "5", "6", "7", "8", "9">>
IsDigit(c) == \E d \in 1..10 : Digits[d] = c
DigitValue(c) == (CHOOSE d \in 1..10 : Digits[d] = c) - 1

\* the value of the leading digits of s, continuing from acc
RECURSIVE LeadingDigits(_, _)
LeadingDigits(s, acc) ==
    IF Len(s) = 0 \/ ~IsDigit(SubSeq(s, 1, 1))
    THEN acc
    ELSE LeadingDigits(SubSeq(s, 2, Len(s)), acc * 10 + DigitValue(SubSeq(s, 1, 1)))

\* parseInt(s, 10) of an unsigned input: NaN unless s starts with a digit
parseInt(s) ==
    IF Len(s) = 0 \/ ~IsDigit(SubSeq(s, 1, 1))
    THEN [nan |-> TRUE, value |-> 0]
    ELSE [nan |-> FALSE, value |-> LeadingDigits(s, 0)]

\* `new URL(baseUrl)` does not throw: the string has a scheme
URLParses(u) == includes(u, "://")

NoConfig ==
    [providerType |-> "", baseUrl |-> "", appName |-> "", appVersion |-> "",
     ciToken |-> "", apiKey |-> "", apiSecret |-> "", projectVersionId |-> Undefined]

\* tl.getInput(name, true) of an input that is not set throws
InputRequired(name) ==
    [threw |-> TRUE, error |-> "Input required: " \o name, config |-> NoConfig]

\* createFortifyConfigFromInputs: the configuration, or the error thrown
createFortifyConfigFromInputs(in) ==
    LET providerType == IF in.providerType = "fod" THEN "fod" ELSE "ssc" IN
    IF in.appName = "" THEN InputRequired("appName")
    ELSE IF in.appVersion = "" THEN InputRequired("appVersion")
    ELSE IF providerType = "fod"
    THEN IF in.fodUrl = "" THEN InputRequired("fodUrl")
         ELSE IF in.fodApiKey = "" THEN InputRequired("fodApiKey")
         ELSE IF in.fodApiSecret = "" THEN InputRequired("fodApiSecret")
         ELSE [threw |-> FALSE, error |-> "",
               config |-> [NoConfig EXCEPT !.providerType = "fod", !.baseUrl = in.fodUrl,
                               !.appName = in.appName, !.appVersion = in.appVersion,
                               !.apiKey = in.fodApiKey, !.apiSecret = in.fodApiSecret]]
    ELSE IF in.sscUrl = "" THEN InputRequired("sscUrl")
         ELSE IF in.ciToken = "" THEN InputRequired("ciToken")
         ELSE [threw |-> FALSE, error |-> "",
               config |-> [NoConfig EXCEPT !.providerType = "ssc", !.baseUrl = in.sscUrl,
                               !.appName = in.appName, !.appVersion = in.appVersion,
                               !.ciToken = in.ciToken]]

\* the task's inputs
TaskInputs ==
    [ providerType : { "", "fod" },
      appName : { ReqApp },
      appVersion : { "", ReqVersion },
      sscUrl : { "", "https://ssc.example.com", "ssc.example.com" },
      ciToken : { "", "ci-token" },
      fodUrl : { "https://api.ams.fortify.com" },
      fodApiKey : { "", "api-key" },
      fodApiSecret : { "api-secret" },
      maxIssues : { "", "0", "abc", "2", "25x" },
      skipValidation : BOOLEAN,
      FORTIFY_SKIP_VALIDATION : { "", "true" } ]

\* what a provider's validateConnection returns
ConnectionResults(providerType) ==
    { [NoResult EXCEPT !.kind = "validation", !.success = TRUE],
      ValidationFail("Authentication failed - please verify the credentials have proper permissions"),
      ValidationFail("Connection failed: " \o makeRequest(providerType, RawTimeout).error) }

\* what a provider's validateApplicationAndVersion returns; the interface
\* leaves versionId optional
AppVersionResults(providerType) ==
    { ValidationOk(42, 7), ValidationOk(43, 9),
      [ValidationOk(42, 7) EXCEPT !.versionId = Undefined],
      [ValidationOk(42, 7) EXCEPT !.versionId = JsStr("")],
      ValidationFail("Application \"" \o ReqApp \o "\" not found"),
      ValidationFail("Validation failed: " \o makeRequest(providerType, RawNetError).error) }

\* what a provider's fetchReportData returns or throws
FetchResults(providerType, cap) ==
    { ReportData(Items(0, n), toString(7)) : n \in { 0, Min(3, cap) } }
    \cup { Thrown(m) : m \in
             { makeRequest(providerType, RawHttp(401, FALSE, "")).error,
               makeRequest(providerType, RawTimeout).error,
               "Version \"" \o ReqVersion \o "\" not found",
               "No filter sets found for this project version" } }

NoOutcome == [result |-> "none", message |-> ""]

TaskInit ==
    /\ inputs \in TaskInputs
    /\ tpc = "start"
    /\ fortifyConfig = NoConfig
    /\ taskMaxIssues = 0
    /\ skipValidation = FALSE
    /\ calls = <<>>
    /\ connectionResult = NoResult
    /\ appVersionResult = NoResult
    /\ reportData = NoResult
    /\ hasValidationErrors = FALSE
    /\ messages = <<>>
    /\ fetchError = ""
    /\ console = <<>>
    /\ configFile = [kind |-> "none", config |-> NoConfig]
    /\ attachments = <<>>
    /\ taskResult = NoOutcome

\* the task is not running (Spec)
TaskIdle ==
    /\ inputs = [ providerType |-> "", appName |-> "", appVersion |-> "", sscUrl |-> "",
                  ciToken |-> "", fodUrl |-> "", fodApiKey |-> "", fodApiSecret |-> "",
                  maxIssues |-> "", skipValidation |-> FALSE,
                  FORTIFY_SKIP_VALIDATION |-> "" ]
    /\ tpc = "idle"
    /\ fortifyConfig = NoConfig
    /\ taskMaxIssues = 0
    /\ skipValidation = FALSE
    /\ calls = <<>>
    /\ connectionResult = NoResult
    /\ appVersionResult = NoResult
    /\ reportData = NoResult
    /\ hasValidationErrors = FALSE
    /\ messages = <<>>
    /\ fetchError = ""
    /\ console = <<>>
    /\ configFile = [kind |-> "none", config |-> NoConfig]
    /\ attachments = <<>>
    /\ taskResult = NoOutcome

\* no provider operation is running (TaskSpec)
ProviderIdle ==
    /\ provider = "ssc" /\ op = "validate" /\ pc = "idle"
    /\ maxIssues = DefaultMaxIssues /\ findings = 0
    /\ appResponse = NoResponse /\ versionResponse = NoResponse
    /\ filterResponse = NoResponse
    /\ applicationId = 0 /\ versionId = 0 /\ filterSetGuid = ""
    /\ allIssues = <<>> /\ start = 0 /\ log = <<>> /\ result = NoResult

warning(text) == [level |-> "warning", text |-> text]
error(text) == [level |-> "error", text |-> text]

\* String.prototype.substring(from, to), 0 <= from <= to
substring(text, from, to) == SubSeq(text, from + 1, Min(to, Len(text)))

\* FoDApiKeyAuthStrategy.authenticate: the line it logs before requesting a token
AuthenticateLog(key) ==
    "[FoD Auth] Starting authentication with API key: " \o substring(key, 0, 8) \o "..."

\* the console after a provider operation: the FoD provider authenticates on
\* its first use (validateConnection directly, any other operation through
\* makeRequest while no token is held); the SSC strategy logs nothing
ProviderConsole ==
    IF fortifyConfig.providerType = "fod" /\ calls = <<>>
    THEN Append(console, AuthenticateLog(fortifyConfig.apiKey))
    ELSE console

\* tl.setResult(tl.TaskResult.Failed, message); return
Fail(message) ==
    /\ taskResult' = [result |-> "Failed", message |-> message]
    /\ tpc' = "done"

\* a faulty variant of SkipValidation, for sensitivity checks: the pipeline variable alone does not skip
SkipValidationInputOnly(skipValidationInput, skipValidationEnv) == skipValidationInput

\* skipValidationInput || skipValidationEnv
SkipValidation(skipValidationInput, skipValidationEnv) ==
    skipValidationInput \/ skipValidationEnv

\* run, up to the first provider call: the configuration and its checks
Task_start ==
    /\ tpc = "start"
    /\ LET made == createFortifyConfigFromInputs(inputs)
           configErrors == validateProviderConfig(made.config)
           maxIssuesInput == IF inputs.maxIssues = "" THEN "10000" ELSE inputs.maxIssues
           parsed == parseInt(maxIssuesInput)
           skip == SkipValidation(inputs.skipValidation,
                                  inputs.FORTIFY_SKIP_VALIDATION = "true")
       IN
       IF made.threw
       THEN /\ Fail(made.error)
            /\ UNCHANGED <<fortifyConfig, taskMaxIssues, skipValidation>>
       ELSE /\ fortifyConfig' = made.config
            /\ IF Len(configErrors) > 0
               THEN /\ Fail("Configuration validation failed: " \o configErrors[1])
                    /\ UNCHANGED <<taskMaxIssues, skipValidation>>
               ELSE IF parsed.nan \/ parsed.value < 1
               THEN /\ Fail("maxIssues must be a positive number")
                    /\ UNCHANGED <<taskMaxIssues, skipValidation>>
               ELSE /\ taskMaxIssues' = parsed.value
                    /\ IF ~URLParses(made.config.baseUrl)
                       THEN /\ Fail("Invalid " \o toUpperCase(made.config.providerType)
                                    \o " URL format")
                            /\ UNCHANGED skipValidation
                       ELSE /\ skipValidation' = skip
                            /\ tpc' = IF skip THEN "publish" ELSE "createProvider"
                            /\ UNCHANGED taskResult
    /\ UNCHANGED <<inputs, calls, connectionResult, appVersionResult, reportData,
                   hasValidationErrors, messages, configFile, attachments>>
    /\ UNCHANGED fetchError
    /\ UNCHANGED console
    /\ UNCHANGED nonTaskVars

\* run: FortifyProviderFactory.createProvider
Task_createProvider ==
    /\ tpc = "createProvider"
    /\ \E importFails \in BOOLEAN :
         LET made == createProvider(fortifyConfig, importFails) IN
         IF made.threw
         THEN /\ messages' = Append(messages,
                     warning("Validation threw an exception: Error: " \o made.error))
              /\ hasValidationErrors' = TRUE
              /\ tpc' = "publish"
         ELSE /\ tpc' = "validateConnection"
              /\ UNCHANGED <<messages, hasValidationErrors>>
    /\ UNCHANGED <<inputs, fortifyConfig, taskMaxIssues, skipValidation, calls,
                   connectionResult, appVersionResult, reportData, configFile,
                   attachments, taskResult>>
    /\ UNCHANGED fetchError
    /\ UNCHANGED console
    /\ UNCHANGED nonTaskVars

\* a faulty variant of ConnectionFailed, for sensitivity checks: the result of validateConnection is ignored
ConnectionFailedNever(res) == FALSE

\* `!connectionResult.success`
ConnectionFailed(res) == ~res.success

\* run: provider.validateConnection and the branch on its result
Task_validateConnection ==
    /\ tpc = "validateConnection"
    /\ \E res \in ConnectionResults(fortifyConfig.providerType) :
         /\ calls' = Append(calls, "validateConnection")
         /\ connectionResult' = res
         /\ IF ConnectionFailed(res)
            THEN /\ messages' = Append(messages,
                        warning("Could not connect to Fortify "
                                \o toUpperCase(fortifyConfig.providerType) \o ": " \o res.error))
                 /\ hasValidationErrors' = TRUE
                 /\ tpc' = "publish"
            ELSE /\ tpc' = "validateApplicationAndVersion"
                 /\ UNCHANGED <<messages, hasValidationErrors>>
    /\ UNCHANGED <<inputs, fortifyConfig, taskMaxIssues, skipValidation, appVersionResult,
                   reportData, configFile, attachments, taskResult>>
    /\ UNCHANGED fetchError
    /\ console' = ProviderConsole
    /\ UNCHANGED nonTaskVars

\* run: provider.validateApplicationAndVersion and the branch on its result
Task_validateApplicationAndVersion ==
    /\ tpc = "validateApplicationAndVersion"
    /\ \E res \in AppVersionResults(fortifyConfig.providerType) :
         /\ calls' = Append(calls, "validateApplicationAndVersion")
         /\ appVersionResult' = res
         /\ IF ~res.success
            THEN /\ messages' = Append(messages,
                        warning("Application/version validation failed: " \o res.error))
                 /\ hasValidationErrors' = TRUE
                 /\ tpc' = "publish"
                 /\ UNCHANGED fortifyConfig
            ELSE /\ IF Truthy(res.versionId)
                    THEN /\ fortifyConfig' =
                                [fortifyConfig EXCEPT !.projectVersionId = res.versionId]
                         /\ UNCHANGED <<messages, hasValidationErrors>>
                    ELSE /\ messages' = Append(messages,
                                warning("Project version ID not found in validation result"))
                         /\ hasValidationErrors' = TRUE
                         /\ UNCHANGED fortifyConfig
                 /\ tpc' = "fetchReportData"
    /\ UNCHANGED <<inputs, taskMaxIssues, skipValidation, connectionResult, reportData,
                   configFile, attachments, taskResult>>
    /\ UNCHANGED fetchError
    /\ console' = ProviderConsole
    /\ UNCHANGED nonTaskVars

\* the warning that classifies a fetch error, if any
FetchErrorHint(errorMessage) ==
    IF includes(errorMessage, "401") \/ includes(errorMessage, "Unauthorized")
       \/ includes(errorMessage, "Authentication")
    THEN <<warning("Authentication error - verify API credentials are correct")>>
    ELSE IF includes(errorMessage, "404") \/ includes(errorMessage, "not found")
    THEN <<warning("Resource not found - verify application and version names are correct")>>
    ELSE IF includes(errorMessage, "timeout") \/ includes(errorMessage, "ECONNREFUSED")
    THEN <<warning("Connection error - verify the Fortify server URL is accessible")>>
    ELSE <<>>

\* a faulty variant of FetchFailureText, for sensitivity checks: the error's text is dropped
FetchFailureTextDropped(providerType, message) ==
    "Failed to fetch Fortify " \o toUpperCase(providerType) \o " data"

\* the text given to tl.error in the catch around fetchReportData
FetchFailureText(providerType, message) ==
    "Failed to fetch Fortify " \o toUpperCase(providerType) \o " data: " \o message

\* run: provider.fetchReportData and its catch block
Task_fetchReportData ==
    /\ tpc = "fetchReportData"
    /\ \E res \in FetchResults(fortifyConfig.providerType, taskMaxIssues) :
         /\ calls' = Append(calls, "fetchReportData")
         /\ IF res.kind = "thrown"
            THEN /\ fetchError' = res.error
                 /\ messages' = messages
                        \o <<error(FetchFailureText(fortifyConfig.providerType, res.error))>>
                        \o FetchErrorHint(res.error)
                 /\ hasValidationErrors' = TRUE
                 /\ UNCHANGED reportData
            ELSE /\ reportData' = res
                 /\ UNCHANGED fetchError
                 /\ messages' =
                        IF Len(res.issues) > 0 THEN messages
                        ELSE Append(messages,
                                 warning("Report fetched for " \o fortifyConfig.appName \o " v"
                                         \o fortifyConfig.appVersion
                                         \o " but no vulnerabilities were found"))
                 /\ UNCHANGED hasValidationErrors
         /\ tpc' = "publish"
    /\ UNCHANGED <<inputs, fortifyConfig, taskMaxIssues, skipValidation, connectionResult,
                   appVersionResult, configFile, attachments, taskResult>>
    /\ console' = ProviderConsole
    /\ UNCHANGED nonTaskVars

\* run, after the provider calls: the files, the attachments, the result
Task_publish ==
    /\ tpc = "publish"
    /\ messages' =
           IF ~Truthy(fortifyConfig.projectVersionId) /\ ~skipValidation
           THEN Append(messages,
                    warning("Unable to determine project/release ID - external links will not work"))
           ELSE messages
    /\ configFile' = [kind |-> "written", config |-> fortifyConfig]
    /\ attachments' =
           IF reportData.kind = "report" THEN <<"config", "report">> ELSE <<"config">>
    /\ taskResult' =
           IF hasValidationErrors
           THEN [result |-> "SucceededWithIssues",
                 message |-> "Fortify " \o toUpperCase(fortifyConfig.providerType)
                             \o " report created with validation errors for "
                             \o fortifyConfig.appName \o " (version: "
                             \o fortifyConfig.appVersion \o "). Check warnings above."]
           ELSE [result |-> "Succeeded",
                 message |-> "Fortify " \o toUpperCase(fortifyConfig.providerType)
                             \o " report configured for " \o fortifyConfig.appName
                             \o " (version: " \o fortifyConfig.appVersion \o ")"
                             \o (IF reportData.kind = "report"
                                 THEN " with " \o ToString(reportData.totalCount) \o " issues"
                                 ELSE "")]
    /\ tpc' = "done"
    /\ UNCHANGED <<inputs, fortifyConfig, taskMaxIssues, skipValidation, calls,
                   connectionResult, appVersionResult, reportData, hasValidationErrors>>
    /\ UNCHANGED fetchError
    /\ UNCHANGED console
    /\ UNCHANGED nonTaskVars

(***************************************************************************)
(* Authentication strategies                                               *)
(***************************************************************************)
\* the clock advances by this many milliseconds at a time
TickMs == 60000
\* how many times the clock advances
MaxTicks == 5
\* how many requests the token endpoint answers
MaxTokenRequests == 2

\* tokenBuffer = 5 * 60 * 1000
tokenBuffer == 5 * 60 * 1000

NoNumber == [type |-> "undefined", value |-> 0]
Number(n) == [type |-> "number", value |-> n]
NoDate == [type |-> "undefined", time |-> 0]
Date(ms) == [type |-> "date", time |-> ms]

\* the expires_in values the token endpoint may grant, in seconds
ExpiresInChoices == { 0, 240, 300, 480 }

\* a parsed token response
TokenData(access, expires) == [isNull |-> FALSE, access_token |-> access, expires_in |-> expires]
NullTokenData == [isNull |-> TRUE, access_token |-> Undefined, expires_in |-> NoNumber]

\* the bodies a 2xx token response may carry
TokenBodies ==
    { TokenData(JsStr("tok-a"), Number(e)) : e \in ExpiresInChoices }
    \cup { TokenData(Undefined, Number(480)), TokenData(JsStr("tok-a"), NoNumber),
           TokenData(JsStr(""), Number(480)), TokenData(Undefined, NoNumber),
           NullTokenData }

\* the answers of the token endpoint
TokenRaw ==
    { [kind |-> "response", status |-> 200, parses |-> TRUE, body |-> b, message |-> ""] :
        b \in TokenBodies }
    \cup { [kind |-> k, status |-> st, parses |-> ps, body |-> NullTokenData, message |-> msg] :
             <<k, st, ps, msg>> \in { <<"response", 200, FALSE, "">>,
                                      <<"response", 401, TRUE, "invalid_client">>,
                                      <<"response", 401, FALSE, "">>,
                                      <<"response", 500, FALSE, "">>,
                                      <<"timeout", 0, FALSE, "">>,
                                      <<"error", 0, FALSE, "">> } }

TokenResolve(tokenData) == [ok |-> TRUE, tokenData |-> tokenData, error |-> ""]
TokenReject(message) == [ok |-> FALSE, tokenData |-> NullTokenData, error |-> message]

\* a faulty variant of TokenAccepted, for sensitivity checks: any JSON object is accepted
TokenAcceptedAnyObject(tokenData) == TRUE

\* `tokenData.access_token && tokenData.expires_in`
TokenAccepted(tokenData) ==
    /\ Truthy(tokenData.access_token)
    /\ tokenData.expires_in.type = "number" /\ tokenData.expires_in.value # 0

\* requestAccessToken: one POST to /oauth/token and what the promise settles to
requestAccessToken(raw) ==
    IF raw.kind = "timeout"
    THEN TokenReject("Token request timeout - FoD did not respond within 30 seconds")
    ELSE IF raw.kind = "error"
    THEN TokenReject("Network error: connect ECONNREFUSED")
    ELSE IF raw.status >= 200 /\ raw.status < 300
    THEN IF ~raw.parses \/ raw.body.isNull
         THEN TokenReject("Invalid JSON response from FoD token endpoint")
         ELSE IF TokenAccepted(raw.body)
         THEN TokenResolve(raw.body)
         ELSE TokenReject("Invalid token response: missing access_token or expires_in")
    ELSE IF raw.parses /\ raw.message # ""
    THEN TokenReject(raw.message)
    ELSE TokenReject("HTTP " \o ToString(raw.status) \o ": " \o StatusMessage(raw.status))

NoAuthResult ==
    [kind |-> "none", op |-> "authenticate", error |-> "", requests |-> 0, status |-> 0,
     parses |-> FALSE, body |-> NullTokenData]
NoValidResult == [called |-> FALSE, at |-> 0, value |-> FALSE, granted |-> [at |-> -1, expires_in |-> 0]]
NoHeadersResult == [kind |-> "none", Authorization |-> "", error |-> "", authenticated |-> FALSE]
NoApiRequest ==
    [kind |-> "none", Authorization |-> "", at |-> 0, validBefore |-> FALSE,
     exchanged |-> FALSE, validAtSend |-> FALSE, expires_in |-> 0]

AuthInit ==
    /\ strategy \in { "ssc", "fod" }
    /\ ciToken \in (IF strategy = "ssc" THEN { "", "ci-token" } ELSE { "" })
    /\ apiKey \in (IF strategy = "fod" THEN { "", "api-key" } ELSE { "" })
    /\ apiSecret = (IF strategy = "fod" THEN "api-secret" ELSE "")
    /\ accessToken = Undefined
    /\ tokenExpiry = NoDate
    /\ now = 0
    /\ tokenRequests = 0
    /\ granted = [at |-> -1, expires_in |-> 0]
    /\ authResult = NoAuthResult
    /\ validResult = NoValidResult
    /\ headersResult = NoHeadersResult
    /\ apiRequest = NoApiRequest

\* no strategy is in use (Spec, TaskSpec)
AuthIdle ==
    /\ strategy = "none" /\ ciToken = "" /\ apiKey = "" /\ apiSecret = ""
    /\ accessToken = Undefined /\ tokenExpiry = NoDate /\ now = 0 /\ tokenRequests = 0
    /\ granted = [at |-> -1, expires_in |-> 0]
    /\ authResult = NoAuthResult
    /\ validResult = NoValidResult
    /\ headersResult = NoHeadersResult
    /\ apiRequest = NoApiRequest

\* authenticate() has completed successfully on this instance
Authenticated ==
    IF strategy = "ssc" THEN authResult.kind = "ok" ELSE granted.at >= 0

\* the clock advances
Auth_tick ==
    /\ strategy \in { "ssc", "fod" }
    /\ now < MaxTicks * TickMs
    /\ now' = now + TickMs
    /\ UNCHANGED <<strategy, ciToken, apiKey, apiSecret, accessToken, tokenExpiry,
                   tokenRequests, granted, authResult, validResult, headersResult>>
    /\ UNCHANGED apiRequest
    /\ UNCHANGED nonAuthVars

\* SSCTokenAuthStrategy.authenticate
Auth_SSC_authenticate ==
    /\ strategy = "ssc"
    /\ authResult' =
           IF ciToken = ""
           THEN [NoAuthResult EXCEPT !.kind = "thrown",
                                     !.error = "CI Token is required for SSC authentication"]
           ELSE [NoAuthResult EXCEPT !.kind = "ok"]
    /\ UNCHANGED <<strategy, ciToken, apiKey, apiSecret, accessToken, tokenExpiry, now,
                   tokenRequests, granted, validResult, headersResult>>
    /\ UNCHANGED apiRequest
    /\ UNCHANGED nonAuthVars

\* a faulty variant of FoDAuthenticate, for sensitivity checks: a failed token
\* exchange drops the stored token and keeps its expiry
FoDAuthenticateDropsToken(via) ==
    IF apiKey = "" \/ apiSecret = ""
    THEN /\ authResult' =
                [NoAuthResult EXCEPT !.kind = "thrown", !.op = via,
                     !.error = "API Key and Secret are required for FoD authentication"]
         /\ UNCHANGED <<accessToken, tokenExpiry, tokenRequests, granted>>
    ELSE /\ tokenRequests < MaxTokenRequests
         /\ \E raw \in TokenRaw :
              LET r == requestAccessToken(raw) IN
              /\ tokenRequests' = tokenRequests + 1
              /\ IF r.ok
                 THEN /\ accessToken' = r.tokenData.access_token
                      /\ tokenExpiry' = Date(now + r.tokenData.expires_in.value * 1000)
                      /\ granted' = [at |-> now, expires_in |-> r.tokenData.expires_in.value]
                      /\ authResult' =
                             [kind |-> "ok", op |-> via, error |-> "", requests |-> 1,
                              status |-> raw.status, parses |-> raw.parses, body |-> raw.body]
                 ELSE /\ authResult' =
                             [kind |-> "thrown", op |-> via,
                              error |-> "FoD authentication failed: " \o r.error,
                              requests |-> 1,
                              status |-> raw.status, parses |-> raw.parses, body |-> raw.body]
                      /\ accessToken' = Undefined
                      /\ UNCHANGED <<tokenExpiry, granted>>

\* FoDApiKeyAuthStrategy.authenticate
FoDAuthenticate(via) ==
    IF apiKey = "" \/ apiSecret = ""
    THEN /\ authResult' =
                [NoAuthResult EXCEPT !.kind = "thrown", !.op = via,
                     !.error = "API Key and Secret are required for FoD authentication"]
         /\ UNCHANGED <<accessToken, tokenExpiry, tokenRequests, granted>>
    ELSE /\ tokenRequests < MaxTokenRequests
         /\ \E raw \in TokenRaw :
              LET r == requestAccessToken(raw) IN
              /\ tokenRequests' = tokenRequests + 1
              /\ IF r.ok
                 THEN /\ accessToken' = r.tokenData.access_token
                      /\ tokenExpiry' = Date(now + r.tokenData.expires_in.value * 1000)
                      /\ granted' = [at |-> now, expires_in |-> r.tokenData.expires_in.value]
                      /\ authResult' =
                             [kind |-> "ok", op |-> via, error |-> "", requests |-> 1,
                              status |-> raw.status, parses |-> raw.parses, body |-> raw.body]
                 ELSE /\ authResult' =
                             [kind |-> "thrown", op |-> via,
                              error |-> "FoD authentication failed: " \o r.error,
                              requests |-> 1,
                              status |-> raw.status, parses |-> raw.parses, body |-> raw.body]
                      /\ UNCHANGED <<accessToken, tokenExpiry, granted>>

Auth_FoD_authenticate ==
    /\ strategy = "fod"
    /\ FoDAuthenticate("authenticate")
    /\ UNCHANGED <<strategy, ciToken, apiKey, apiSecret, now, validResult, headersResult>>
    /\ UNCHANGED apiRequest
    /\ UNCHANGED nonAuthVars

\* FoDApiKeyAuthStrategy.refresh: the same as authenticate
Auth_FoD_refresh ==
    /\ strategy = "fod"
    /\ FoDAuthenticate("refresh")
    /\ UNCHANGED <<strategy, ciToken, apiKey, apiSecret, now, validResult, headersResult>>
    /\ UNCHANGED apiRequest
    /\ UNCHANGED nonAuthVars

\* a faulty variant of FoDisValid, for sensitivity checks: no buffer before the expiry
FoDisValidNoBuffer(token, expiry, t) ==
    IF ~Truthy(token) \/ expiry.type = "undefined" THEN FALSE ELSE t < expiry.time

\* FoDApiKeyAuthStrategy.isValid
FoDisValid(token, expiry, t) ==
    IF ~Truthy(token) \/ expiry.type = "undefined"
    THEN FALSE
    ELSE LET expiryWithBuffer == expiry.time - tokenBuffer
         IN  t < expiryWithBuffer

\* SSCTokenAuthStrategy.isValid
SSCisValid(token) == token # ""

\* isValid() of either strategy
Auth_isValid ==
    /\ strategy \in { "ssc", "fod" }
    /\ validResult' =
           [called |-> TRUE, at |-> now,
            value |-> IF strategy = "ssc" THEN SSCisValid(ciToken)
                      ELSE FoDisValid(accessToken, tokenExpiry, now),
            granted |-> granted]
    /\ UNCHANGED <<strategy, ciToken, apiKey, apiSecret, accessToken, tokenExpiry, now,
                   tokenRequests, granted, authResult, headersResult>>
    /\ UNCHANGED apiRequest
    /\ UNCHANGED nonAuthVars

\* SSCTokenAuthStrategy.getAuthHeaders
SSCgetAuthHeaders(token, authenticated) ==
    [kind |-> "headers", Authorization |-> "FortifyToken " \o token, error |-> "",
     authenticated |-> authenticated]

\* FoDApiKeyAuthStrategy.getAuthHeaders
FoDgetAuthHeaders(token, authenticated) ==
    IF ~Truthy(token)
    THEN [kind |-> "thrown", Authorization |-> "",
          error |-> "Not authenticated. Call authenticate() first.",
          authenticated |-> authenticated]
    ELSE [kind |-> "headers", Authorization |-> "Bearer " \o token.text, error |-> "",
          authenticated |-> authenticated]

\* getAuthHeaders() of either strategy
Auth_getAuthHeaders ==
    /\ strategy \in { "ssc", "fod" }
    /\ headersResult' =
           IF strategy = "ssc" THEN SSCgetAuthHeaders(ciToken, Authenticated)
           ELSE FoDgetAuthHeaders(accessToken, Authenticated)
    /\ UNCHANGED <<strategy, ciToken, apiKey, apiSecret, accessToken, tokenExpiry, now,
                   tokenRequests, granted, authResult, validResult>>
    /\ UNCHANGED apiRequest
    /\ UNCHANGED nonAuthVars

\* FortifyFoDProvider.makeRequest up to the moment the request is handed to
\* https.request: the token is exchanged when isValid() is false, and the
\* request goes out with getAuthHeaders() unless the exchange failed
Auth_FoD_makeRequest ==
    /\ strategy = "fod"
    /\ LET validBefore == FoDisValid(accessToken, tokenExpiry, now) IN
       IF validBefore
       THEN /\ apiRequest' =
                   [NoApiRequest EXCEPT !.kind = "sent", !.at = now, !.validBefore = TRUE,
                        !.Authorization = FoDgetAuthHeaders(accessToken, TRUE).Authorization,
                        !.validAtSend = FoDisValid(accessToken, tokenExpiry, now),
                        !.expires_in = granted.expires_in]
            /\ UNCHANGED <<accessToken, tokenExpiry, tokenRequests, granted, authResult>>
       ELSE /\ FoDAuthenticate("refresh")
            /\ apiRequest' =
                   IF authResult'.kind = "ok"
                   THEN [NoApiRequest EXCEPT !.kind = "sent", !.at = now, !.exchanged = TRUE,
                             !.Authorization = FoDgetAuthHeaders(accessToken', TRUE).Authorization,
                             !.validAtSend = FoDisValid(accessToken', tokenExpiry', now),
                             !.expires_in = granted'.expires_in]
                   ELSE [NoApiRequest EXCEPT !.kind = "thrown", !.at = now,
                             !.exchanged = authResult'.requests > 0]
    /\ UNCHANGED <<strategy, ciToken, apiKey, apiSecret, now, validResult, headersResult>>
    /\ UNCHANGED nonAuthVars

AuthNext ==
    \/ Auth_FoD_makeRequest
    \/ Auth_tick
    \/ Auth_SSC_authenticate
    \/ Auth_FoD_authenticate
    \/ Auth_FoD_refresh
    \/ Auth_isValid
    \/ Auth_getAuthHeaders

(***************************************************************************)
(* validateConnection of the two providers                                 *)
(***************************************************************************)
\* { success: true, provider }
ConnectionOk == [NoResult EXCEPT !.kind = "validation", !.success = TRUE]

\* the answers to the test request
ConnectRaw(prov) ==
    { RawOk(b) : b \in { NullBody, NoListBody, ListBody(<<>>) } }
    \cup RawFailures(prov)
    \cup { RawHttp(401, FALSE, ""), RawHttp(401, TRUE, "Invalid or expired token"),
           RawHttp(403, TRUE, "Access Denied") }

\* the log line of a token request
SentToken(raw) ==
    [what |-> "token", start |-> 0, kind |-> raw.kind, status |-> raw.status,
     parses |-> raw.parses, shape |-> "none", count |-> 0]

\* the catch block of FortifySSCProvider.validateConnection
SSCConnectionError(errorMessage) ==
    IF includes(errorMessage, "401") \/ includes(errorMessage, "Authentication failed")
    THEN ValidationFail("Authentication failed - please verify the CI token has proper permissions")
    ELSE ValidationFail("Connection failed: " \o errorMessage)

\* the catch block of FortifyFoDProvider.validateConnection
FoDConnectionError(errorMessage) ==
    IF includes(errorMessage, "401") \/ includes(errorMessage, "Authentication failed")
       \/ includes(errorMessage, "Unauthorized")
    THEN ValidationFail("Authentication failed - please verify the API key and secret have proper permissions")
    ELSE ValidationFail("Connection failed: " \o errorMessage)

\* FortifySSCProvider.validateConnection
SSC_validateConnection ==
    /\ provider = "ssc" /\ op = "connect" /\ pc = "test"
    /\ \E raw \in ConnectRaw(provider) :
         LET r == makeRequest(provider, raw) IN
         /\ log' = Append(log, Sent("test", 0, raw))
         /\ Finish(IF ~r.ok THEN SSCConnectionError(r.error)
                   ELSE IF r.json.shape = "null"
                   THEN ValidationFail("Unable to connect to Fortify SSC - no response received")
                   ELSE ConnectionOk)
    /\ UNCHANGED <<inputVars, resolveVars, fetchVars, nonProviderVars>>

\* FortifyFoDProvider.validateConnection
FoD_validateConnection ==
    /\ provider = "fod" /\ op = "connect" /\ pc = "test"
    /\ \E traw \in TokenRaw :
         LET t == requestAccessToken(traw) IN
         IF ~t.ok
         THEN /\ log' = Append(log, SentToken(traw))
              /\ Finish(FoDConnectionError("FoD authentication failed: " \o t.error))
         ELSE \E raw \in ConnectRaw(provider) :
                LET r == makeRequest(provider, raw) IN
                /\ log' = log \o <<SentToken(traw), Sent("test", 0, raw)>>
                /\ Finish(IF ~r.ok THEN FoDConnectionError(r.error)
                          ELSE IF r.json.shape = "null"
                          THEN ValidationFail("Unable to connect to Fortify on Demand - no response received")
                          ELSE ConnectionOk)
    /\ UNCHANGED <<inputVars, resolveVars, fetchVars, nonProviderVars>>

ConnectNext ==
    \/ SSC_validateConnection
    \/ FoD_validateConnection

(***************************************************************************)
(* Normalisation of findings and issue links                               *)
(***************************************************************************)
\* String.prototype.indexOf, counted from 1; 0 when absent
IndexOf(text, pattern) ==
    LET hits == { i \in 1..(Len(text) - Len(pattern) + 1) :
                    SubSeq(text, i, i + Len(pattern) - 1) = pattern }
    IN  IF hits = {} THEN 0 ELSE CHOOSE i \in hits : \A j \in hits : i <= j

\* String.prototype.replace with a string pattern: the first occurrence only
replace(text, pattern, replacement) ==
    LET i == IndexOf(text, pattern)
    IN  IF i = 0 THEN text
        ELSE SubSeq(text, 1, i - 1) \o replacement
                 \o SubSeq(text, i + Len(pattern), Len(text))

\* .replace(/\/$/, '')
stripTrailingSlash(text) ==
    IF Len(text) > 0 /\ SubSeq(text, Len(text), Len(text)) = "/"
    THEN SubSeq(text, 1, Len(text) - 1)
    ELSE text

UpperLetters == "ABCDEFGHIJKLMNOPQRSTUVWXYZ"
LowerLetters == "abcdefghijklmnopqrstuvwxyz"

LowerChar(c) ==
    LET k == IndexOf(UpperLetters, c)
    IN  IF k = 0 THEN c ELSE SubSeq(LowerLetters, k, k)

\* String.prototype.toLowerCase
RECURSIVE toLowerCase(_)
toLowerCase(text) ==
    IF text = "" THEN ""
    ELSE LowerChar(SubSeq(text, 1, 1)) \o toLowerCase(SubSeq(text, 2, Len(text)))

\* SECURITY_AUDITOR_FOLDERS
SECURITY_AUDITOR_FOLDERS ==
    { [guid |-> "b968f72f-cc12-03b5-976e-ad4c13920c21", name |-> "Critical", color |-> "ed1c24", id |-> 1],
      [guid |-> "5b50bb77-071d-08ed-fdba-1213fa90ac5a", name |-> "High", color |-> "ff7800", id |-> 2],
      [guid |-> "d5f55910-5f0d-a775-e91f-191d1f5608a4", name |-> "Medium", color |-> "f6aa58", id |-> 3],
      [guid |-> "bb824e8d-b401-40be-13bd-5d156696a685", name |-> "Low", color |-> "eec845", id |-> 4] }

\* the folder GUIDs a raw SSC issue may carry ("" also stands for a missing one)
FolderGuidChoices ==
    { f.guid : f \in SECURITY_AUDITOR_FOLDERS }
    \cup { "", "B968F72F-CC12-03B5-976E-AD4C13920C21", "00000000-0000-0000-0000-000000000000" }

\* the severity strings a raw FoD finding may carry ("" also stands for a missing one)
SeverityChoices ==
    { "", "Critical", "critical", "CRITICAL", "High", "hIGH", "Medium", "MEDIUM", "Low", "low",
      "Info", "Unknown", " High", "Best Practice" }

\* the line numbers a raw finding may carry (0 also stands for a missing one)
LineNumberChoices == { 0, 10, -1 }

BaseUrlChoices ==
    { "https://api.ams.fortify.com", "https://api.emea.fortify.com/", "https://ssc.example.com/api/v3" }

\* a likelihood or confidence of a raw finding: missing, a number or a
\* string; numbers are held in thousandths, strings with the number they spell
NoRating == [type |-> "undefined", text |-> "", milli |-> 0]
RatingNumber(m) == [type |-> "number", text |-> "", milli |-> m]
RatingString(t, m) == [type |-> "string", text |-> t, milli |-> m]

\* the <<likelihood, confidence>> a raw FoD finding may carry
FoDRatings ==
    { <<NoRating, NoRating>>, <<RatingNumber(0), RatingNumber(0)>>,
      <<RatingNumber(299), RatingNumber(2499)>>, <<RatingNumber(300), RatingNumber(2500)>>,
      <<RatingNumber(699), RatingNumber(3999)>>, <<RatingNumber(700), RatingNumber(4000)>>,
      <<RatingNumber(1000), RatingNumber(5000)>> }

\* the <<likelihood, confidence>> a raw SSC issue may carry
SSCRatings ==
    { <<NoRating, NoRating>>, <<RatingString("", 0), RatingString("", 0)>>,
      <<RatingString("0.299", 299), RatingString("2.499", 2499)>>,
      <<RatingString("0.3", 300), RatingString("2.5", 2500)>>,
      <<RatingString("0.69", 690), RatingString("3.99", 3990)>>,
      <<RatingString("0.7", 700), RatingString("4.0", 4000)>>,
      <<RatingString("1", 1000), RatingString("5", 5000)>>,
      <<RatingNumber(700), RatingNumber(4000)>>, <<RatingNumber(300), RatingNumber(2500)>>,
      <<RatingString("N/A", 0), RatingString("high", 0)>> }

NoFinding ==
    [likelihood |-> NoRating, confidence |-> NoRating, id |-> 0, vulnId |-> "", vulnInstanceId |-> "", issueInstanceId |-> "",
     primaryLocationFull |-> "", fileName |-> "", shortFileName |-> "", primaryLocation |-> "",
     lineNumber |-> 0, severityString |-> "", folderGuid |-> ""]

\* raw FoD findings
FoDFindings ==
    { [NoFinding EXCEPT !.id = 31318521, !.vulnId = "abb6c1ff-7b24-4b6d-a469-c3d6d7bea656",
                        !.vulnInstanceId = vi, !.primaryLocationFull = full, !.fileName = file,
                        !.shortFileName = short, !.lineNumber = line, !.severityString = sev,
                        !.likelihood = rating[1], !.confidence = rating[2]] :
        rating \in FoDRatings, vi \in { "", "5A1B" }, full \in { "", "src/main/a.java" }, file \in { "", "a.java" },
        short \in { "", "a.java" }, line \in LineNumberChoices, sev \in SeverityChoices }

\* raw SSC issues
SSCFindings ==
    { [NoFinding EXCEPT !.id = id, !.issueInstanceId = inst, !.primaryLocation = loc,
                        !.fileName = file, !.lineNumber = line, !.folderGuid = guid,
                        !.likelihood = rating[1], !.confidence = rating[2]] :
        rating \in SSCRatings, id \in { 0, 9001 }, inst \in { "", "5A1B" }, loc \in { "", "src/main/a.java" },
        file \in { "", "a.java" }, line \in { 0, 10 }, guid \in FolderGuidChoices }

NoIssue ==
    [mapped |-> FALSE, likelihood |-> "", confidence |-> "", id |-> "", instanceId |-> "", severity |-> "", priority |-> "",
     primaryLocation |-> "", lineNumber |-> 0, folderGuid |-> "", folderId |-> 0,
     folderName |-> "", folderColor |-> "", provider |-> ""]

\* a || b on strings
OrElse(a, b) == IF a # "" THEN a ELSE b

\* how many digits text starts with
RECURSIVE DigitCount(_)
DigitCount(text) ==
    IF Len(text) = 0 \/ ~IsDigit(SubSeq(text, 1, 1)) THEN 0
    ELSE 1 + DigitCount(SubSeq(text, 2, Len(text)))

\* parseFloat of an unsigned decimal string, in thousandths (further digits
\* dropped): NaN unless the string starts with a digit or with '.' and a digit
parseFloat(text) ==
    LET k == DigitCount(text)
        rest == SubSeq(text, k + 1, Len(text))
        fraction == IF Len(rest) > 0 /\ SubSeq(rest, 1, 1) = "."
                    THEN SubSeq(rest, 2, Len(rest)) ELSE ""
        fk == DigitCount(fraction)
        padded == SubSeq(SubSeq(fraction, 1, fk) \o "000", 1, 3)
    IN  IF k = 0 /\ fk = 0
        THEN [nan |-> TRUE, milli |-> 0]
        ELSE [nan |-> FALSE,
              milli |-> LeadingDigits(SubSeq(text, 1, k), 0) * 1000 + LeadingDigits(padded, 0)]

\* FoD: `vuln.likelihood || 0`, a number
FoDRatingNumber(r) == [nan |-> FALSE, milli |-> IF r.type = "number" THEN r.milli ELSE 0]

\* SSC: `issue.likelihood || '0'`, then parseFloat when it is a string
SSCRatingNumber(r) ==
    IF r.type = "number" /\ r.milli # 0 THEN [nan |-> FALSE, milli |-> r.milli]
    ELSE IF r.type = "string" /\ r.text # "" THEN parseFloat(r.text)
    ELSE parseFloat("0")

\* a faulty variant of mapLikelihoodToString, for sensitivity checks: open lower bounds
mapLikelihoodToStringOpen(like) ==
    IF ~like.nan /\ like.milli > 700 THEN "Likely"
    ELSE IF ~like.nan /\ like.milli > 300 THEN "Possible"
    ELSE "Unlikely"

\* mapLikelihoodToString of both providers (thresholds 0.7 and 0.3)
mapLikelihoodToString(like) ==
    IF ~like.nan /\ like.milli >= 700 THEN "Likely"
    ELSE IF ~like.nan /\ like.milli >= 300 THEN "Possible"
    ELSE "Unlikely"

\* mapConfidenceToString of both providers (thresholds 4.0 and 2.5)
mapConfidenceToString(conf) ==
    IF ~conf.nan /\ conf.milli >= 4000 THEN "High"
    ELSE IF ~conf.nan /\ conf.milli >= 2500 THEN "Medium"
    ELSE "Low"

\* a faulty variant of getSeverityId, for sensitivity checks: the case is not folded
getSeverityIdCaseSensitive(severity) ==
    CASE severity = "critical" -> 1
      [] severity = "high" -> 2
      [] severity = "medium" -> 3
      [] severity = "low" -> 4
      [] OTHER -> 0

\* FortifyFoDProvider.getSeverityId
getSeverityId(severity) ==
    LET lower == toLowerCase(severity) IN
    CASE lower = "critical" -> 1
      [] lower = "high" -> 2
      [] lower = "medium" -> 3
      [] lower = "low" -> 4
      [] OTHER -> 0

\* FortifyFoDProvider.getSeverityColor
getSeverityColor(severity) ==
    LET lower == toLowerCase(severity) IN
    CASE lower = "critical" -> "ed1c24"
      [] lower = "high" -> "ff7800"
      [] lower = "medium" -> "f6aa58"
      [] lower = "low" -> "eec845"
      [] OTHER -> "666666"

\* a faulty variant of FoDPrimaryLocation, for sensitivity checks: a line without a file is dropped
FoDPrimaryLocationFileOnly(vuln) ==
    LET fileLocation == OrElse(vuln.primaryLocationFull, OrElse(vuln.fileName, vuln.shortFileName))
    IN  IF fileLocation # "" /\ vuln.lineNumber > 0
        THEN fileLocation \o ":" \o ToString(vuln.lineNumber)
        ELSE fileLocation

\* mapFoDVulnToSecurityIssue: primaryLocation
FoDPrimaryLocation(vuln) ==
    LET fileLocation == OrElse(vuln.primaryLocationFull, OrElse(vuln.fileName, vuln.shortFileName))
    IN  IF fileLocation # ""
        THEN IF vuln.lineNumber # 0 /\ vuln.lineNumber > 0
             THEN fileLocation \o ":" \o ToString(vuln.lineNumber)
             ELSE fileLocation
        ELSE IF vuln.lineNumber # 0 /\ vuln.lineNumber > 0
        THEN ":" \o ToString(vuln.lineNumber)
        ELSE ""

\* a faulty variant of FoDIssueId, for sensitivity checks: the UUID is used
FoDIssueIdFromVulnId(vuln) == vuln.vulnId

\* mapFoDVulnToSecurityIssue: id: vuln.id.toString()
FoDIssueId(vuln) == ToString(vuln.id)

\* FortifyFoDProvider.mapFoDVulnToSecurityIssue
\* a faulty variant of FoDSeverity, for sensitivity checks: no default
FoDSeverityNoDefault(vuln) == vuln.severityString

\* mapFoDVulnToSecurityIssue: `vuln.severityString || 'Unknown'`
FoDSeverity(vuln) == OrElse(vuln.severityString, "Unknown")

mapFoDVulnToSecurityIssue(vuln) ==
    LET severity == FoDSeverity(vuln)
        severityColor == getSeverityColor(severity)
    IN  [mapped |-> TRUE,
         id |-> FoDIssueId(vuln),
         instanceId |-> OrElse(vuln.vulnInstanceId, vuln.vulnId),
         severity |-> severity,
         priority |-> severity,
         likelihood |-> mapLikelihoodToString(FoDRatingNumber(vuln.likelihood)),
         confidence |-> mapConfidenceToString(FoDRatingNumber(vuln.confidence)),
         primaryLocation |-> FoDPrimaryLocation(vuln),
         lineNumber |-> vuln.lineNumber,
         folderGuid |-> "",
         folderId |-> getSeverityId(severity),
         folderName |-> severity,
         folderColor |-> severityColor,
         provider |-> "fod"]

UnknownFolder == [guid |-> "", name |-> "Unknown", color |-> "666666", id |-> 0]

\* a faulty variant of SSCFolder, for sensitivity checks: an unknown GUID counts as Low
SSCFolderDefaultLow(folderGuid) ==
    IF \E f \in SECURITY_AUDITOR_FOLDERS : f.guid = folderGuid
    THEN CHOOSE f \in SECURITY_AUDITOR_FOLDERS : f.guid = folderGuid
    ELSE CHOOSE f \in SECURITY_AUDITOR_FOLDERS : f.id = 4

\* SECURITY_AUDITOR_FOLDERS.get(folderGuid) with the defaults for a miss
SSCFolder(folderGuid) ==
    IF \E f \in SECURITY_AUDITOR_FOLDERS : f.guid = folderGuid
    THEN CHOOSE f \in SECURITY_AUDITOR_FOLDERS : f.guid = folderGuid
    ELSE UnknownFolder

\* FortifySSCProvider.mapSSCIssueToSecurityIssue
mapSSCIssueToSecurityIssue(raw) ==
    LET folderGuid == OrElse(raw.folderGuid, "")
        folder == SSCFolder(folderGuid)
    IN  [mapped |-> TRUE,
         id |-> ToString(raw.id),
         instanceId |-> OrElse(raw.issueInstanceId, ""),
         severity |-> folder.name,
         priority |-> folder.name,
         likelihood |-> mapLikelihoodToString(SSCRatingNumber(raw.likelihood)),
         confidence |-> mapConfidenceToString(SSCRatingNumber(raw.confidence)),
         primaryLocation |-> OrElse(raw.primaryLocation, OrElse(raw.fileName, "")),
         lineNumber |-> raw.lineNumber,
         folderGuid |-> folderGuid,
         folderId |-> folder.id,
         folderName |-> folder.name,
         folderColor |-> folder.color,
         provider |-> "ssc"]

\* the release / version the links are built for
MapVersionId == "160779"

\* baseUrl.replace('api.', '').replace('/api', '').replace('/v3', '').replace(/\/$/, '')
FoDWebUrl(baseUrl) ==
    stripTrailingSlash(replace(replace(replace(baseUrl, "api.", ""), "/api", ""), "/v3", ""))

\* FortifyFoDProvider.generateIssueUrl
FoDgenerateIssueUrl(baseUrl, releaseId, vulnId) ==
    FoDWebUrl(baseUrl) \o "/Releases/" \o releaseId \o "/Issues/" \o vulnId

\* encodeURIComponent(`[instance id]:${instanceId}`), instance ids holding
\* unreserved characters only
EncodedInstanceQuery(instanceId) == "%5Binstance%20id%5D%3A" \o instanceId

\* FortifySSCProvider.generateIssueUrl
SSCgenerateIssueUrl(baseUrl, verId, issueInstanceId) ==
    baseUrl \o "/html/ssc/version/" \o verId \o "/audit?q="
        \o EncodedInstanceQuery(issueInstanceId)

\* the report panel's generateIssueUrl(config, issue)
panelGenerateIssueUrl(providerType, baseUrl, verId, mappedIssue) ==
    LET instanceId == OrElse(mappedIssue.instanceId, mappedIssue.id) IN
    IF providerType = "fod"
    THEN FoDWebUrl(baseUrl) \o "/Releases/" \o verId \o "/Issues/" \o mappedIssue.id
    ELSE stripTrailingSlash(baseUrl) \o "/html/ssc/version/" \o verId \o "/audit?q="
             \o EncodedInstanceQuery(instanceId)

MapInit ==
    /\ mapProvider \in { "ssc", "fod" }
    /\ mapBaseUrl \in BaseUrlChoices
    /\ finding \in (IF mapProvider = "fod" THEN FoDFindings ELSE SSCFindings)
    /\ issue = NoIssue
    /\ providerUrl = ""
    /\ panelUrl = ""

\* no finding is being mapped (Spec, TaskSpec, AuthSpec)
MapIdle ==
    /\ mapProvider = "none" /\ mapBaseUrl = "" /\ finding = NoFinding
    /\ issue = NoIssue /\ providerUrl = "" /\ panelUrl = ""

\* the FoD provider maps one raw finding
Map_FoD ==
    /\ mapProvider = "fod" /\ ~issue.mapped
    /\ issue' = mapFoDVulnToSecurityIssue(finding)
    /\ UNCHANGED <<mapProvider, mapBaseUrl, finding, providerUrl, panelUrl>>
    /\ UNCHANGED nonMapVars

\* the SSC provider maps one raw issue
Map_SSC ==
    /\ mapProvider = "ssc" /\ ~issue.mapped
    /\ issue' = mapSSCIssueToSecurityIssue(finding)
    /\ UNCHANGED <<mapProvider, mapBaseUrl, finding, providerUrl, panelUrl>>
    /\ UNCHANGED nonMapVars

\* the provider's generateIssueUrl, fed with the issue's id (FoD) or its
\* instance id (SSC); the provider's constructor strips the trailing slash
Map_providerUrl ==
    /\ issue.mapped /\ providerUrl = ""
    /\ providerUrl' =
           IF mapProvider = "fod"
           THEN FoDgenerateIssueUrl(stripTrailingSlash(mapBaseUrl), MapVersionId, issue.id)
           ELSE SSCgenerateIssueUrl(stripTrailingSlash(mapBaseUrl), MapVersionId,
                                    issue.instanceId)
    /\ UNCHANGED <<mapProvider, mapBaseUrl, finding, issue, panelUrl>>
    /\ UNCHANGED nonMapVars

\* the report panel builds the link of the issue
Map_panelUrl ==
    /\ issue.mapped /\ panelUrl = ""
    /\ panelUrl' = panelGenerateIssueUrl(mapProvider, mapBaseUrl, MapVersionId, issue)
    /\ UNCHANGED <<mapProvider, mapBaseUrl, finding, issue, providerUrl>>
    /\ UNCHANGED nonMapVars

(***************************************************************************)
(* The provider factory applied to one configuration                       *)
(***************************************************************************)
\* the configurations handed to the factory: every field present or not;
\* providerType "" stands for a Partial<FortifyConfig> without one
FactoryConfigs ==
    { [NoConfig EXCEPT !.providerType = kind, !.baseUrl = url, !.appName = app,
                       !.appVersion = ver, !.ciToken = token, !.apiKey = key,
                       !.apiSecret = secret] :
        kind \in {"", "ssc", "fod", "other"}, url \in {"", "https://fortify.example.com"},
        app \in {"", "WebShop"}, ver \in {"", "1.0"}, token \in {"", "ci-token"},
        key \in {"", "api-key"}, secret \in {"", "api-secret"} }

NoCall == [name |-> "", importFails |-> FALSE]
NoCreated == [threw |-> FALSE, error |-> "", providerType |-> ""]

FactoryInit ==
    /\ factoryConfig \in FactoryConfigs
    /\ factoryCall = NoCall
    /\ factoryCreated = NoCreated
    /\ factoryErrors = <<>>
    /\ factoryDetected = ""

FactoryIdle ==
    /\ factoryConfig = NoConfig
    /\ factoryCall = NoCall
    /\ factoryCreated = NoCreated
    /\ factoryErrors = <<>>
    /\ factoryDetected = ""

\* FortifyProviderFactory.createProvider(config), config a FortifyConfig
Factory_createProvider ==
    /\ factoryCall = NoCall
    /\ factoryConfig.providerType # ""
    /\ \E importFails \in BOOLEAN :
          /\ factoryCall' = [name |-> "createProvider", importFails |-> importFails]
          /\ factoryCreated' = createProvider(factoryConfig, importFails)
    /\ UNCHANGED <<factoryConfig, factoryErrors, factoryDetected>>
    /\ UNCHANGED nonFactoryVars

\* FortifyProviderFactory.validateProviderConfig(config), config a FortifyConfig
Factory_validateProviderConfig ==
    /\ factoryCall = NoCall
    /\ factoryConfig.providerType # ""
    /\ factoryCall' = [name |-> "validateProviderConfig", importFails |-> FALSE]
    /\ factoryErrors' = validateProviderConfig(factoryConfig)
    /\ UNCHANGED <<factoryConfig, factoryCreated, factoryDetected>>
    /\ UNCHANGED nonFactoryVars

\* FortifyProviderFactory.detectProviderType(config), config a Partial<FortifyConfig>
Factory_detectProviderType ==
    /\ factoryCall = NoCall
    /\ factoryCall' = [name |-> "detectProviderType", importFails |-> FALSE]
    /\ factoryDetected' = detectProviderType(factoryConfig)
    /\ UNCHANGED <<factoryConfig, factoryCreated, factoryErrors>>
    /\ UNCHANGED nonFactoryVars

(***************************************************************************)
(* The report panel (build results tab)                                    *)
(***************************************************************************)
\* loadReportData calls and builds considered
MaxLoads == 3
MaxBuilds == 3

\* the options of the severity select; '' is "All Severities"
SeverityOptions == { "", "Critical", "High", "Medium", "Low" }

PanelIssue(id, severity, folderName) ==
    [id |-> id, severity |-> severity, folderName |-> folderName]

\* getMockData(reason).issues
MockIssues ==
    << PanelIssue("M1", "Critical", "Critical"),
       PanelIssue("M2", "High", "High"),
       PanelIssue("M3", "Medium", "Medium") >>

\* the attachments the task published for a build: always the configuration,
\* and the report unless the fetch failed (here every third build)
HasReport(build) == build % 3 # 0

\* the issues of the report attachment of a build
ReportIssues(build) ==
    IF build % 3 = 1
    THEN << PanelIssue("R1", "Critical", "Critical"),
            PanelIssue("R2", "High", "High") >>
    ELSE << PanelIssue("R3", "High", "High"),
            PanelIssue("R4", "Low", "") >>

NullClient == [build |-> 0, serial |-> 0]
NullReport == [by |-> 0, source |-> "", build |-> 0, issues |-> <<>>]
NullError == [by |-> 0, text |-> ""]
NullPanelConfig == [by |-> 0, build |-> 0]

\* the value a load gives to state.reportData
LoadedReport(id, build) ==
    [by |-> id, source |-> "report", build |-> build, issues |-> ReportIssues(build)]
MockReport(id) ==
    [by |-> id, source |-> "mock", build |-> 0, issues |-> MockIssues]

\* applyFilters: reportData.issues, restricted to (folderName || severity)
\* === severityFilter when a filter is selected
RECURSIVE FilterIssues(_, _)
FilterIssues(list, selected) ==
    IF list = <<>> THEN <<>>
    ELSE LET head == Head(list)
             rest == FilterIssues(Tail(list), selected)
         IN IF selected = "" \/ OrElse(head.folderName, head.severity) = selected
            THEN <<head>> \o rest
            ELSE rest

PanelInit ==
    /\ panelMounted = FALSE
    /\ panelClient = NullClient
    /\ panelReportData = NullReport
    /\ panelLoading = TRUE
    /\ panelError = NullError
    /\ filteredIssues = <<>>
    /\ severityFilter = ""
    /\ panelConfig = NullPanelConfig
    /\ loads = {}
    /\ started = 0

PanelIdle ==
    /\ panelMounted = FALSE
    /\ panelClient = NullClient
    /\ panelReportData = NullReport
    /\ panelLoading = TRUE
    /\ panelError = NullError
    /\ filteredIssues = <<>>
    /\ severityFilter = ""
    /\ panelConfig = NullPanelConfig
    /\ loads = {}
    /\ started = 0

\* the final setState of a load: every path of loadReportData ends by writing
\* reportData, loading, error and filteredIssues (all the issues of the data)
FinishLoad(id, data, text) ==
    /\ panelReportData' = data
    /\ panelLoading' = FALSE
    /\ panelError' = [by |-> id, text |-> text]
    /\ filteredIssues' = data.issues

\* loadReportData(), up to its first await, for the client in the properties
loadReportData(current) ==
    /\ started' = started + 1
    /\ IF current = NullClient
       THEN /\ FinishLoad(started + 1, MockReport(started + 1),
                          "Could not load build attachments")
            /\ panelConfig' = [by |-> started + 1, build |-> 0]
            /\ UNCHANGED loads
       ELSE /\ panelLoading' = TRUE
            /\ panelError' = [by |-> started + 1, text |-> ""]
            /\ loads' = loads \cup
                 { [id |-> started + 1, pc |-> "config", build |-> current.build,
                    reportFrom |-> 0] }
            /\ UNCHANGED <<panelReportData, filteredIssues, panelConfig>>

\* displayReports(attachmentClient) after a build-changed event: render with
\* the new client (null when init() failed); componentDidMount on the first
\* render, componentDidUpdate afterwards
Panel_displayReports ==
    /\ started < MaxLoads
    /\ \E build \in 0..MaxBuilds :
         LET next == IF build = 0 THEN NullClient
                     ELSE [build |-> build, serial |-> started + 1]
         IN /\ panelClient' = next
            /\ panelMounted' = TRUE
            /\ IF ~panelMounted \/ next # panelClient
               THEN loadReportData(next)
               ELSE UNCHANGED <<panelReportData, panelLoading, panelError,
                                filteredIssues, panelConfig, loads, started>>
    /\ UNCHANGED severityFilter
    /\ UNCHANGED nonPanelVars

\* loadReportData resumes after `await getAttachmentContent(config)`
Panel_configContent ==
    /\ \E load \in loads, ok \in BOOLEAN :
         /\ load.pc = "config"
         /\ IF ~ok
            THEN /\ FinishLoad(load.id, MockReport(load.id), "Not Found")
                 /\ loads' = loads \ {load}
                 /\ UNCHANGED panelConfig
            ELSE /\ panelConfig' = [by |-> load.id, build |-> load.build]
                 /\ IF ~HasReport(load.build)
                    THEN /\ FinishLoad(load.id, MockReport(load.id),
                                       "No live data available - check build logs for connection issues")
                         /\ loads' = loads \ {load}
                    ELSE IF panelClient = NullClient
                    THEN /\ FinishLoad(load.id, MockReport(load.id),
                                       "Cannot read properties of null")
                         /\ loads' = loads \ {load}
                    ELSE IF ~HasReport(panelClient.build)
                    THEN /\ FinishLoad(load.id, MockReport(load.id),
                                       "Attachment is not downloadable")
                         /\ loads' = loads \ {load}
                    ELSE /\ loads' = (loads \ {load}) \cup
                              { [load EXCEPT !.pc = "report",
                                             !.reportFrom = panelClient.build] }
                         /\ UNCHANGED <<panelReportData, panelLoading, panelError,
                                        filteredIssues>>
    /\ UNCHANGED <<panelMounted, panelClient, severityFilter, started>>
    /\ UNCHANGED nonPanelVars

\* loadReportData resumes after `await getAttachmentContent(report)`
Panel_reportContent ==
    /\ \E load \in loads, ok \in BOOLEAN :
         /\ load.pc = "report"
         /\ IF ok
            THEN FinishLoad(load.id, LoadedReport(load.id, load.reportFrom), "")
            ELSE FinishLoad(load.id, MockReport(load.id), "Not Found")
         /\ loads' = loads \ {load}
    /\ UNCHANGED <<panelMounted, panelClient, severityFilter, panelConfig, started>>
    /\ UNCHANGED nonPanelVars

\* handleSeverityFilterChange(severityFilter) with its applyFilters callback;
\* the select is rendered only when loading is false
Panel_handleSeverityFilterChange ==
    /\ panelMounted
    /\ ~panelLoading
    /\ \E selected \in SeverityOptions :
         /\ severityFilter' = selected
         /\ filteredIssues' =
              IF panelReportData = NullReport THEN filteredIssues
              ELSE FilterIssues(panelReportData.issues, selected)
    /\ UNCHANGED <<panelMounted, panelClient, panelReportData, panelLoading,
                   panelError, panelConfig, loads, started>>
    /\ UNCHANGED nonPanelVars

\* handleRefresh ('Reload Data'); the button is rendered only when loading is
\* false
Panel_handleRefresh ==
    /\ panelMounted
    /\ ~panelLoading
    /\ started < MaxLoads
    /\ loadReportData(panelClient)
    /\ UNCHANGED <<panelMounted, panelClient, severityFilter>>
    /\ UNCHANGED nonPanelVars

PanelNext ==
    \/ Panel_displayReports
    \/ Panel_configContent
    \/ Panel_reportContent
    \/ Panel_handleSeverityFilterChange
    \/ Panel_handleRefresh

FactoryNext ==
    \/ Factory_createProvider
    \/ Factory_validateProviderConfig
    \/ Factory_detectProviderType

MapNext ==
    \/ Map_FoD
    \/ Map_SSC
    \/ Map_providerUrl
    \/ Map_panelUrl

TaskNext ==
    \/ Task_start
    \/ Task_createProvider
    \/ Task_validateConnection
    \/ Task_validateApplicationAndVersion
    \/ Task_fetchReportData
    \/ Task_publish

TaskSpecInit == TaskInit /\ ProviderIdle /\ AuthIdle /\ MapIdle /\ FactoryIdle
    /\ PanelIdle

TaskSpec == TaskSpecInit /\ [][TaskNext]_vars

Next == SSCNext \/ FoDNext \/ ConnectNext

Init == ProviderInit /\ TaskIdle /\ AuthIdle /\ MapIdle /\ FactoryIdle
    /\ PanelIdle

Spec == Init /\ [][Next]_vars

\* the provider operations with every awaited request settling: makeRequest
\* resolves or rejects on a response, a network error or its 30 s timeout
LiveSpec == Init /\ [][Next]_vars /\ WF_vars(Next)

AuthSpecInit == AuthInit /\ ProviderIdle /\ TaskIdle /\ MapIdle /\ FactoryIdle
    /\ PanelIdle

AuthSpec == AuthSpecInit /\ [][AuthNext]_vars

MapSpecInit == MapInit /\ ProviderIdle /\ TaskIdle /\ AuthIdle /\ FactoryIdle
    /\ PanelIdle

MapSpec == MapSpecInit /\ [][MapNext]_vars

FactorySpecInit == FactoryInit /\ ProviderIdle /\ TaskIdle /\ AuthIdle /\ MapIdle
    /\ PanelIdle

FactorySpec == FactorySpecInit /\ [][FactoryNext]_vars

PanelSpecInit ==
    PanelInit /\ ProviderIdle /\ TaskIdle /\ AuthIdle /\ MapIdle /\ FactoryIdle

PanelSpec == PanelSpecInit /\ [][PanelNext]_vars

(***************************************************************************)
(* Properties of the providers (checked under Spec)                        *)
(***************************************************************************)
Limit(prov) == IF prov = "fod" THEN FoDLimit ELSE SSCLimit

\* the issues-page requests of the operation, in the order they were sent
PageLog == SelectSeq(log, LAMBDA e : e.what = "page")

\* the request got no usable answer: error status, timeout, network error,
\* failed token exchange or a body that is not JSON
Failed(e) ==
    e.kind # "response" \/ e.status < 200 \/ e.status >= 300 \/ ~e.parses

\* an entry of the list named `name` exists / has the id `id`
HasExact(list, name) == \E i \in 1..Len(list) : list[i].name = name
IsExact(list, name, id) ==
    \E i \in 1..Len(list) : list[i].name = name /\ list[i].id = id

\* C1: SSCProvider resolves a project or a version only to an entry of the
\* search result whose name equals the requested name exactly.
C1_SSCExactNames ==
    provider = "ssc" =>
        /\ applicationId # 0 => IsExact(appResponse.list, ReqApp, applicationId)
        /\ versionId # 0 => IsExact(versionResponse.list, ReqVersion, versionId)

\* C2: FoDProvider resolves an application or a release only to the entry of
\* the search result whose name equals the requested name exactly, whatever
\* the order of the result; a result without an exact match makes the
\* operation fail, and the ids it returns are those of the exact entries.
C2_FoDExactNames ==
    (provider = "fod" /\ op \in { "validate", "fetch" }) =>
        /\ applicationId # 0 => IsExact(appResponse.list, ReqApp, applicationId)
        /\ versionId # 0 => IsExact(versionResponse.list, ReqVersion, versionId)
        /\ (appResponse.shape # "none" /\ ~HasExact(appResponse.list, ReqApp)) =>
               pc = "done" /\ ~result.success /\ applicationId = 0
        /\ (versionResponse.shape # "none" /\ ~HasExact(versionResponse.list, ReqVersion)) =>
               pc \in { "done", "enumerate" } /\ ~result.success /\ versionId = 0
        /\ (result.kind = "validation" /\ result.success) =>
               /\ IsExact(appResponse.list, ReqApp, applicationId)
               /\ IsExact(versionResponse.list, ReqVersion, versionId)
               /\ result.applicationId = toString(applicationId)
               /\ result.versionId = toString(versionId)
        /\ result.kind = "report" =>
               /\ IsExact(versionResponse.list, ReqVersion, versionId)
               /\ result.projectVersionId = toString(versionId)

\* C2 witness: a partial match is listed before the exact one in both
\* searches and the validation succeeded
C2_Witness ==
    /\ provider = "fod" /\ op = "validate" /\ pc = "done" /\ result.success
    /\ Len(appResponse.list) = 2 /\ appResponse.list[1].name # ReqApp
    /\ Len(versionResponse.list) = 2 /\ versionResponse.list[1].name # ReqVersion

\* the scenario of C3: project 42, version 7, two filter sets of which one is
\* titled 'Security Auditor View', a backend holding three issues that puts
\* two of them in the first page
C3_Scenario ==
    /\ provider = "ssc" /\ op = "fetch" /\ pc = "done"
    /\ applicationId = 42 /\ versionId = 7
    /\ Len(filterResponse.list) = 2
    /\ \E i \in 1..2 : filterResponse.list[i].title = "Security Auditor View"
    /\ findings = 3 /\ maxIssues >= 3
    /\ Len(PageLog) >= 1 /\ ~Failed(PageLog[1])
    /\ PageLog[1].shape = "list" /\ PageLog[1].count = 2

\* C3 as stated: in the scenario the report counts three issues, in the
\* backend's order
C3_Original ==
    C3_Scenario =>
        /\ result.kind = "report"
        /\ result.totalCount = 3
        /\ result.issues = <<1, 2, 3>>

\* C3 amended: in the scenario the report holds the two issues of the first
\* page, in the backend's order, and no second page is requested
C3_FirstPageOnly ==
    C3_Scenario =>
        /\ result.kind = "report"
        /\ result.totalCount = 2
        /\ result.issues = <<1, 2>>
        /\ Len(PageLog) = 1

\* C3 witness: the scenario ran and the fetch returned a report after the
\* one page of two issues
C3_Witness ==
    /\ C3_Scenario
    /\ result.kind = "report"
    /\ filterSetGuid = "g-sa"
    /\ Len(PageLog) = 1

\* C4: k full pages followed by a non-empty partial page, with maxIssues
\* above the total: the issues are those of the k+1 pages in order, and the
\* partial page is the last request.
C4_PartialPageEndsFetch ==
    \A k \in 1..Len(PageLog) :
        ( /\ \A j \in 1..k : ~Failed(PageLog[j]) /\ PageLog[j].shape = "list"
          /\ \A j \in 1..(k - 1) : PageLog[j].count = Limit(provider)
          /\ PageLog[k].count > 0 /\ PageLog[k].count < Limit(provider)
          /\ maxIssues > (k - 1) * Limit(provider) + PageLog[k].count )
        => /\ pc = "done"
           /\ Len(PageLog) = k
           /\ \A j \in 1..k : PageLog[j].start = (j - 1) * Limit(provider)
           /\ result.kind = "report"
           /\ result.issues = Items(0, (k - 1) * Limit(provider) + PageLog[k].count)
           /\ result.totalCount = (k - 1) * Limit(provider) + PageLog[k].count

\* C4 witness: two full FoD pages and a partial third one
C4_Witness ==
    /\ provider = "fod" /\ pc = "done" /\ result.kind = "report"
    /\ Len(PageLog) = 3
    /\ PageLog[1].count = FoDLimit /\ PageLog[2].count = FoDLimit
    /\ PageLog[3].count = 20
    /\ maxIssues > 2 * FoDLimit + 20

\* every page was answered the way a backend holding `findings` findings
\* answers a request for `limit` of them
HonestPages ==
    \A j \in 1..Len(PageLog) :
        /\ ~Failed(PageLog[j]) /\ PageLog[j].shape = "list"
        /\ PageLog[j].count = Min(Max(findings - PageLog[j].start, 0), Limit(provider))

\* C5: a backend holding more findings than maxIssues: the report holds the
\* first maxIssues of them and counts maxIssues.
C5_CappedAtMaxIssues ==
    (op = "fetch" /\ pc = "done" /\ result.kind = "report"
        /\ findings > maxIssues /\ HonestPages)
    => /\ Len(result.issues) = maxIssues
       /\ result.issues = Items(0, maxIssues)
       /\ result.totalCount = maxIssues

\* C5 witness: a cap that is no multiple of the page size cuts the second
\* FoD page
C5_Witness ==
    /\ provider = "fod" /\ op = "fetch" /\ pc = "done" /\ result.kind = "report"
    /\ findings > maxIssues /\ HonestPages
    /\ maxIssues % FoDLimit # 0 /\ Len(allIssues) > maxIssues
    /\ Len(PageLog) = 2

\* C6: a failed issues-page request ends the fetch with an error: nothing
\* is returned and no request follows it.
C6_PageFailureIsFatal ==
    \A k \in 1..Len(log) :
        (log[k].what = "page" /\ Failed(log[k]))
        => /\ k = Len(log)
           /\ pc = "done"
           /\ result.kind = "thrown"

\* C6 witness: the third FoD page failed after two pages were collected
C6_Witness ==
    /\ provider = "fod" /\ Len(PageLog) = 3 /\ Failed(PageLog[3])
    /\ ~Failed(PageLog[1]) /\ ~Failed(PageLog[2])
    /\ Len(allIssues) = 2 * FoDLimit

\* C7: an issues page answered with a success status and a body without
\* the expected list makes fetchReportData fail.
C7_MissingListIsFatal ==
    \A k \in 1..Len(log) :
        (log[k].what = "page" /\ ~Failed(log[k]) /\ log[k].shape \in { "null", "nolist" })
        => /\ pc = "done"
           /\ result.kind = "thrown"

\* the filter set the priority order of C8 selects: the first whose title
\* contains 'Security Auditor', else the first flagged default, else the first
PriorityFilterSet(data) ==
    LET sa == FindIndex({ k \in 1..Len(data) :
                              includes(data[k].title, "Security Auditor") })
        def == FindIndex({ k \in 1..Len(data) : data[k].defaultFilterSet })
    IN  IF sa # 0 THEN data[sa].guid
        ELSE IF def # 0 THEN data[def].guid
        ELSE data[1].guid

\* C8: the filter set selected is the 'Security Auditor' one if the list has
\* one, else the default one, else the first.
C8_FilterSetPriority ==
    filterSetGuid # "" => filterSetGuid = PriorityFilterSet(filterResponse.list)

(***************************************************************************)
(* Properties of the task (checked under TaskSpec)                         *)
(***************************************************************************)
\* skip-validation mode is asked for, by the input or by the pipeline variable
SkipRequested ==
    inputs.skipValidation \/ inputs.FORTIFY_SKIP_VALIDATION = "true"

\* the inputs passed run()'s checks
InputsAccepted == tpc # "start" /\ taskResult.result # "Failed"

\* C9 as stated: in skip-validation mode the task calls fetchReportData,
\* and nothing before it
C9_Original ==
    (SkipRequested /\ tpc = "done" /\ InputsAccepted)
    => calls = <<"fetchReportData">>

\* C9 amended: in skip-validation mode the task calls no provider operation
\* at all, fetches and publishes no report, and ends Succeeded without a
\* warning, with the configuration attachment alone
C9_SkipCallsNothing ==
    SkipRequested =>
        /\ calls = <<>>
        /\ reportData.kind = "none"
        /\ (tpc = "done" /\ InputsAccepted) =>
               /\ taskResult.result = "Succeeded"
               /\ attachments = <<"config">>
               /\ messages = <<>>

\* C9 witness: a run in skip-validation mode, asked for by the pipeline
\* variable alone, has ended
C9_Witness ==
    /\ ~inputs.skipValidation /\ inputs.FORTIFY_SKIP_VALIDATION = "true"
    /\ tpc = "done" /\ taskResult.result = "Succeeded"

ProviderOperations ==
    <<"validateConnection", "validateApplicationAndVersion", "fetchReportData">>

\* C10: with validation enabled the provider's operations are called in
\* the order validateConnection, validateApplicationAndVersion,
\* fetchReportData, each only after the one before reported success, none
\* after the first that did not; and when the resolution succeeded and
\* returned a versionId, the configuration written carries that versionId.
C10_ValidationOrder ==
    ~SkipRequested =>
        /\ Len(calls) <= 3
        /\ calls = SubSeq(ProviderOperations, 1, Len(calls))
        /\ Len(calls) >= 2 => connectionResult.success
        /\ Len(calls) >= 3 => appVersionResult.success
        /\ (Len(calls) >= 1 /\ ~connectionResult.success) => Len(calls) = 1
        /\ (Len(calls) >= 2 /\ ~appVersionResult.success) => Len(calls) = 2
        /\ (configFile.kind = "written" /\ appVersionResult.success
               /\ Truthy(appVersionResult.versionId))
           => configFile.config.projectVersionId = appVersionResult.versionId

\* C10 witness: the three operations were called and the configuration
\* written carries the resolved version
C10_Witness ==
    /\ ~SkipRequested /\ tpc = "done"
    /\ calls = ProviderOperations
    /\ reportData.kind = "report"
    /\ appVersionResult.versionId = toString(9)
    /\ configFile.config.projectVersionId = toString(9)

\* the provider factory threw: validation was flagged before any provider call
FactoryThrew == hasValidationErrors /\ calls = <<>>

\* the original error texts of the failures met by the run so far
OriginalErrors ==
    (IF FactoryThrew THEN { createProvider(fortifyConfig, TRUE).error } ELSE {})
    \cup (IF Len(calls) >= 1 /\ ~connectionResult.success
          THEN { connectionResult.error } ELSE {})
    \cup (IF Len(calls) >= 2 /\ ~appVersionResult.success
          THEN { appVersionResult.error } ELSE {})
    \cup (IF fetchError # "" THEN { fetchError } ELSE {})

\* C11: with validation enabled, a run in which the factory threw, the
\* connection validation or the name resolution failed, or the fetch threw
\* does not end Failed: it ends SucceededWithIssues with the configuration
\* written and attached, and a warning or error it emitted contains the
\* original error text.
C11_FailureIsDowngraded ==
    (~SkipRequested /\ tpc = "done" /\ OriginalErrors # {}) =>
        /\ taskResult.result = "SucceededWithIssues"
        /\ configFile.kind = "written"
        /\ Len(attachments) >= 1 /\ attachments[1] = "config"
        /\ \A e \in OriginalErrors :
               \E i \in 1..Len(messages) : includes(messages[i].text, e)

\* C11 witness: a run whose fetch threw has ended
C11_Witness ==
    /\ tpc = "done" /\ calls = ProviderOperations
    /\ fetchError = "No filter sets found for this project version"
    /\ taskResult.result = "SucceededWithIssues"

(***************************************************************************)
(* Properties of the authentication strategies (checked under AuthSpec)    *)
(***************************************************************************)
\* C12: what isValid() of the FoD strategy returned at time t is true exactly
\* when a token was granted before, at t0 with expires_in = E seconds, and
\* t < t0 + E - 300 seconds (times in milliseconds); so it is false in the
\* last five minutes before the expiry, after it, and before any grant.
C12_ValidUntilBuffer ==
    (strategy = "fod" /\ validResult.called) =>
        (validResult.value <=>
            /\ validResult.granted.at >= 0
            /\ validResult.at
                 < validResult.granted.at + (validResult.granted.expires_in - 300) * 1000)

\* C12 witness: isValid() returned false inside the five minutes before the
\* expiry of a token that has not expired
C12_Witness ==
    /\ strategy = "fod" /\ validResult.called /\ ~validResult.value
    /\ validResult.granted.at >= 0
    /\ validResult.at < validResult.granted.at + validResult.granted.expires_in * 1000
    /\ validResult.at >= validResult.granted.at + (validResult.granted.expires_in - 300) * 1000

\* C13: getAuthHeaders() called on a strategy on which authenticate() has not
\* completed successfully throws
C13_HeadersNeedAuthentication ==
    (headersResult.kind # "none" /\ ~headersResult.authenticated)
        => headersResult.kind = "thrown"

\* C14: authenticate() on a 2xx token response whose body lacks access_token
\* or expires_in throws, after exactly one token request
C14_IncompleteTokenIsRejected ==
    [][ \A raw \in TokenRaw :
          ( /\ strategy = "fod" /\ apiKey # "" /\ apiSecret # ""
            /\ tokenRequests' # tokenRequests
            /\ authResult'.status = raw.status /\ authResult'.parses = raw.parses
            /\ authResult'.body = raw.body
            /\ raw.kind = "response" /\ raw.status = 200 /\ raw.parses /\ ~raw.body.isNull
            /\ (~Truthy(raw.body.access_token) \/ raw.body.expires_in.type = "undefined") )
          => /\ authResult'.kind = "thrown"
             /\ tokenRequests' = tokenRequests + 1
             /\ UNCHANGED <<accessToken, tokenExpiry, granted>> ]_vars

\* C14 witness: an authenticate() answered 200 with a body without
\* access_token has thrown
C14_Witness ==
    /\ strategy = "fod" /\ authResult.kind = "thrown" /\ authResult.op = "authenticate"
    /\ authResult.status = 200 /\ authResult.parses /\ ~authResult.body.isNull
    /\ authResult.body.access_token = Undefined
    /\ authResult.body.expires_in = Number(480)
    /\ tokenRequests = 1

(***************************************************************************)
(* Properties of validateConnection and of the validation results (Spec)   *)
(***************************************************************************)
\* the request that made validateConnection fail was a credential rejection:
\* the token exchange was rejected, or a request was answered with HTTP 401
CredentialRejected(e) ==
    \/ e.kind = "authfail"
    \/ e.kind = "response" /\ e.status = 401

\* the authentication-specific error of a provider's validateConnection
AuthenticationError(prov) ==
    IF prov = "fod"
    THEN "Authentication failed - please verify the API key and secret have proper permissions"
    ELSE "Authentication failed - please verify the CI token has proper permissions"

StartsWith(text, prefix) ==
    Len(text) >= Len(prefix) /\ SubSeq(text, 1, Len(prefix)) = prefix

\* C15: validateConnection returns the authentication-specific error when
\* the request that failed was a credential rejection (token exchange
\* rejected, or HTTP 401 whatever the body), and the generic 'Connection
\* failed: ...' error when it was a timeout or a network failure.
C15_AuthErrorsAreDistinguished ==
    (op = "connect" /\ pc = "done" /\ Len(log) >= 1) =>
        LET e == log[Len(log)] IN
        /\ CredentialRejected(e) =>
               /\ ~result.success
               /\ result.error = AuthenticationError(provider)
        /\ e.kind \in { "timeout", "error" } =>
               /\ ~result.success
               /\ StartsWith(result.error, "Connection failed: ")

\* the result carries both ids
HasIds(res) == res.applicationId # Undefined /\ res.versionId # Undefined
\* the result carries no id
HasNoId(res) == res.applicationId = Undefined /\ res.versionId = Undefined

\* C16 as stated: every result of validateConnection or
\* validateApplicationAndVersion carries the two ids iff success is true,
\* and an error iff success is false
C16_Original ==
    (op \in { "connect", "validate" } /\ pc = "done") =>
        /\ result.kind = "validation"
        /\ HasIds(result) <=> result.success
        /\ HasNoId(result) <=> ~result.success
        /\ result.error # "" <=> ~result.success

\* C16 amended: a result of validateApplicationAndVersion carries the two
\* ids iff success is true; a result of validateConnection never carries an
\* id; both carry an error iff success is false
C16_ValidationResultShape ==
    (op \in { "connect", "validate" } /\ pc = "done") =>
        /\ result.kind = "validation"
        /\ op = "validate" => /\ HasIds(result) <=> result.success
                              /\ HasNoId(result) <=> ~result.success
        /\ op = "connect" => HasNoId(result)
        /\ result.error # "" <=> ~result.success

\* C16 witness: a validateConnection of the FoD provider succeeded
C16_Witness ==
    /\ provider = "fod" /\ op = "connect" /\ pc = "done"
    /\ result.success /\ HasNoId(result)

(***************************************************************************)
(* Properties of the normalisation and of the links (checked under MapSpec) *)
(***************************************************************************)
EndsWith(text, suffix) ==
    Len(text) >= Len(suffix)
        /\ SubSeq(text, Len(text) - Len(suffix) + 1, Len(text)) = suffix

FirstFile(vuln) ==
    IF vuln.primaryLocationFull # "" THEN vuln.primaryLocationFull
    ELSE IF vuln.fileName # "" THEN vuln.fileName
    ELSE vuln.shortFileName

C19_SSCFolderClassification ==
    (mapProvider = "ssc" /\ issue.mapped) =>
        LET tuple == <<issue.folderName, issue.folderColor, issue.folderId>>
            guid == finding.folderGuid
        IN  /\ tuple =
                 CASE guid = "b968f72f-cc12-03b5-976e-ad4c13920c21" -> <<"Critical", "ed1c24", 1>>
                   [] guid = "5b50bb77-071d-08ed-fdba-1213fa90ac5a" -> <<"High", "ff7800", 2>>
                   [] guid = "d5f55910-5f0d-a775-e91f-191d1f5608a4" -> <<"Medium", "f6aa58", 3>>
                   [] guid = "bb824e8d-b401-40be-13bd-5d156696a685" -> <<"Low", "eec845", 4>>
                   [] OTHER -> <<"Unknown", "666666", 0>>
            /\ issue.severity = issue.folderName

\* C19 witness: an issue without a folder GUID was classified Unknown
C19_Witness ==
    /\ mapProvider = "ssc" /\ issue.mapped /\ finding.folderGuid = ""
    /\ issue.folderName = "Unknown" /\ issue.folderId = 0

\* C20: the ordinal and color of a FoD issue are (1, ed1c24), (2, ff7800),
\* (3, f6aa58), (4, eec845) when its severity string is critical, high,
\* medium, low in any letter case, and (0, 666666) for any other string,
\* a missing one included.
C20_FoDSeverityLookup ==
    (mapProvider = "fod" /\ issue.mapped) =>
        LET sev == finding.severityString
            pair == <<issue.folderId, issue.folderColor>>
        IN  /\ sev \in { "Critical", "critical", "CRITICAL" } => pair = <<1, "ed1c24">>
            /\ sev \in { "High", "hIGH" } => pair = <<2, "ff7800">>
            /\ sev \in { "Medium", "MEDIUM" } => pair = <<3, "f6aa58">>
            /\ sev \in { "Low", "low" } => pair = <<4, "eec845">>
            /\ toLowerCase(sev) \notin { "critical", "high", "medium", "low" }
                   => pair = <<0, "666666">>
            /\ pair[1] # 0 => toLowerCase(sev) \in { "critical", "high", "medium", "low" }

\* C20 witness: the severity 'hIGH' was given the ordinal 2
C20_Witness ==
    /\ mapProvider = "fod" /\ issue.mapped /\ finding.severityString = "hIGH"
    /\ issue.folderId = 2 /\ issue.folderColor = "ff7800"

\* the number a rating stands for, in thousandths; 0 for a missing one
RatingMilli(r) == IF r.type = "undefined" THEN 0 ELSE r.milli
\* the rating is missing or a number (spelled as a string or not)
RatingIsNumeric(r) == r.type # "string" \/ r.text = "" \/ ~parseFloat(r.text).nan

\* C21: for both providers, a likelihood >= 0.7 is Likely, one in [0.3, 0.7)
\* Possible, one below 0.3 or missing Unlikely; a confidence >= 4.0 is High,
\* one in [2.5, 4.0) Medium, one below 2.5 or missing Low.
C21_ClosedLowerBounds ==
    (issue.mapped /\ RatingIsNumeric(finding.likelihood)
                  /\ RatingIsNumeric(finding.confidence)) =>
        LET l == RatingMilli(finding.likelihood)
            c == RatingMilli(finding.confidence)
        IN  /\ issue.likelihood =
                   (IF l >= 700 THEN "Likely" ELSE IF l >= 300 THEN "Possible" ELSE "Unlikely")
            /\ issue.confidence =
                   (IF c >= 4000 THEN "High" ELSE IF c >= 2500 THEN "Medium" ELSE "Low")

\* C21 witness: an SSC issue with the likelihood '0.7' and the confidence
\* '4.0' was mapped to Likely / High
C21_Witness ==
    /\ mapProvider = "ssc" /\ issue.mapped
    /\ finding.likelihood = RatingString("0.7", 700)
    /\ finding.confidence = RatingString("4.0", 4000)
    /\ issue.likelihood = "Likely" /\ issue.confidence = "High"

\* the number of empty fields of the configuration among the given ones
EmptyFields(names) == Cardinality({ name \in names : factoryConfig[name] = "" })
\* the credential fields the configuration's kind requires
RequiredCredentials ==
    IF factoryConfig.providerType = "ssc" THEN {"ciToken"}
    ELSE IF factoryConfig.providerType = "fod" THEN {"apiKey", "apiSecret"}
    ELSE {}
\* the provider state and the token endpoint were never touched
NoNetworkCall == log = <<>> /\ tokenRequests = 0 /\ calls = <<>>

\* C22: createProvider throws, with no provider built and no request sent,
\* when an SSC configuration has no ciToken, a FoD configuration lacks apiKey
\* or apiSecret, or the providerType is neither; otherwise (the provider
\* module loading) it returns a provider of the configured kind.
C22_CreateProviderFailsFast ==
    factoryCall.name = "createProvider" =>
        /\ NoNetworkCall
        /\ IF EmptyFields(RequiredCredentials) > 0
              \/ factoryConfig.providerType \notin {"ssc", "fod"}
           THEN factoryCreated.threw /\ factoryCreated.providerType = ""
           ELSE ~factoryCall.importFails =>
                    /\ ~factoryCreated.threw
                    /\ factoryCreated.providerType = factoryConfig.providerType

\* C22 witness: a FoD configuration with an API key and no secret was refused
C22_Witness ==
    /\ factoryCall.name = "createProvider"
    /\ factoryConfig.providerType = "fod"
    /\ factoryConfig.apiKey # "" /\ factoryConfig.apiSecret = ""
    /\ factoryCreated.threw

\* C23: for an SSC or FoD configuration, validateProviderConfig returns as
\* many errors as there are empty fields among baseUrl, appName, appVersion
\* and the kind's credentials (apiKey and apiSecret each counting), hence no
\* error exactly when none is empty.
C23_OneErrorPerMissingField ==
    (factoryCall.name = "validateProviderConfig"
     /\ factoryConfig.providerType \in {"ssc", "fod"}) =>
        Len(factoryErrors) =
            EmptyFields({"baseUrl", "appName", "appVersion"} \cup RequiredCredentials)

\* C23 witness: a FoD configuration with nothing but its kind got five errors
C23_Witness ==
    /\ factoryCall.name = "validateProviderConfig"
    /\ factoryConfig.providerType = "fod"
    /\ Len(factoryErrors) = 5

\* the credential sets the configuration carries in full
PopulatedSets ==
    (IF factoryConfig.ciToken # "" THEN {"ssc"} ELSE {})
    \cup (IF factoryConfig.apiKey # "" /\ factoryConfig.apiSecret # "" THEN {"fod"} ELSE {})

\* C24: validateProviderConfig returns no error only for a configuration
\* with exactly one credential set populated, the one of its providerType.
C24_ExactlyOneCredentialSet ==
    (factoryCall.name = "validateProviderConfig" /\ factoryErrors = <<>>) =>
        PopulatedSets = {factoryConfig.providerType}

\* C25: detectProviderType returns the configured kind when there is one,
\* else SSC when a CI token is present, else FoD when both apiKey and
\* apiSecret are present, else SSC.
C25_DetectProviderType ==
    factoryCall.name = "detectProviderType" =>
        factoryDetected =
            (IF factoryConfig.providerType # "" THEN factoryConfig.providerType
             ELSE IF "ssc" \in PopulatedSets THEN "ssc"
             ELSE IF "fod" \in PopulatedSets THEN "fod"
             ELSE "ssc")

\* C25 witness: no kind configured, a CI token and complete FoD credentials
\* present, SSC detected
C25_Witness ==
    /\ factoryCall.name = "detectProviderType"
    /\ factoryConfig.providerType = ""
    /\ PopulatedSets = {"ssc", "fod"}
    /\ factoryDetected = "ssc"

\* the credential values of the run's configuration
Credentials ==
    { c \in {fortifyConfig.ciToken, fortifyConfig.apiKey, fortifyConfig.apiSecret} : c # "" }
\* the text holds the secret's first four characters (all of a shorter one)
HoldsPartOf(text, secret) == includes(text, SubSeq(secret, 1, Min(4, Len(secret))))
\* everything written to the console: console.log lines and tl.warning / tl.error texts
ConsoleOutput ==
    { console[i] : i \in 1..Len(console) } \cup { messages[i].text : i \in 1..Len(messages) }
\* the credential fields JSON.stringify writes into the published fortify-config.json
PublishedCredentials ==
    IF configFile.kind = "written" /\ \E i \in 1..Len(attachments) : attachments[i] = "config"
    THEN { c \in {configFile.config.ciToken, configFile.config.apiKey,
                  configFile.config.apiSecret} : c # "" }
    ELSE {}

\* C26: during a run of the task no credential value (ciToken, apiKey,
\* apiSecret), whole or in part, reaches the console or a published
\* attachment.
C26_NoCredentialDisclosed ==
    /\ PublishedCredentials = {}
    /\ \A written \in ConsoleOutput, c \in Credentials : ~HoldsPartOf(written, c)

\* the published configuration file holds a credential of the run
C26_AttachmentHoldsCredential == PublishedCredentials # {}
\* a console line holds a part of the API key
C26_ConsoleHoldsKeyPart ==
    \E i \in 1..Len(console) : HoldsPartOf(console[i], fortifyConfig.apiKey)

\* the four severity names
SeverityNames == { "Critical", "High", "Medium", "Low" }
\* the finding's native classification is a recognised one
Recognised ==
    IF mapProvider = "ssc"
    THEN \E f \in SECURITY_AUDITOR_FOLDERS : f.guid = finding.folderGuid
    ELSE toLowerCase(finding.severityString) \in { "critical", "high", "medium", "low" }

\* C27: a SecurityIssue of either provider has severity = priority =
\* folderName, one of Critical, High, Medium, Low when the finding's folder
\* GUID (SSC) or severity string in any letter case (FoD) is a recognised
\* one, and 'Unknown' otherwise.
C27_SeverityIsCanonical ==
    issue.mapped =>
        /\ issue.severity = issue.priority
        /\ issue.severity = issue.folderName
        /\ IF Recognised THEN issue.severity \in SeverityNames
           ELSE issue.severity = "Unknown"

\* C27 (amended): severity = priority = folderName for every issue; for SSC
\* the value is one of the four names for a canonical folder GUID and
\* 'Unknown' otherwise; for FoD it is the finding's severity string as
\* received, and 'Unknown' only when that string is missing or empty.
C27_SeverityFollowsSource ==
    issue.mapped =>
        /\ issue.severity = issue.priority
        /\ issue.severity = issue.folderName
        /\ mapProvider = "ssc" =>
               IF Recognised THEN issue.severity \in SeverityNames
               ELSE issue.severity = "Unknown"
        /\ mapProvider = "fod" =>
               issue.severity = (IF finding.severityString = "" THEN "Unknown"
                                 ELSE finding.severityString)

\* C27 witness: the FoD severity string 'hIGH' was kept as it came
C27_Witness ==
    /\ mapProvider = "fod" /\ issue.mapped
    /\ finding.severityString = "hIGH"
    /\ issue.severity = "hIGH" /\ issue.folderName = "hIGH"

\* C28: a ReportData returned by fetchReportData counts its issues and holds
\* at most maxIssues of them, whatever the pages held.
C28_CountWithinCap ==
    (op = "fetch" /\ result.kind = "report") =>
        /\ result.totalCount = Len(result.issues)
        /\ Len(result.issues) <= maxIssues

\* C28 witness: a page larger than the page size took the collection past
\* maxIssues, and the report was cut to maxIssues
C28_Witness ==
    /\ op = "fetch" /\ pc = "done" /\ result.kind = "report"
    /\ \E j \in 1..Len(PageLog) : PageLog[j].count > Limit(provider)
    /\ Len(allIssues) > maxIssues
    /\ result.totalCount = maxIssues

\* the number of items of the pages that were answered with a list
RECURSIVE Collected(_)
Collected(pages) ==
    IF pages = <<>> THEN 0
    ELSE (IF ~Failed(Head(pages)) /\ Head(pages).shape = "list" THEN Head(pages).count ELSE 0)
         + Collected(Tail(pages))

\* C29: within one fetchReportData the j-th issues-page request starts at
\* (j - 1) * L (L = 100 for SSC, 50 for FoD): offsets rise by L with no repeat
\* and no gap; a request is sent only after every earlier page was answered
\* with items and these were collected, and a step sends at most one request.
C29_PagesInOrder ==
    /\ [](op = "fetch" =>
            /\ \A j \in 1..Len(PageLog) : PageLog[j].start = (j - 1) * Limit(provider)
            /\ \A j \in 1..(Len(PageLog) - 1) :
                  ~Failed(PageLog[j]) /\ PageLog[j].shape = "list" /\ PageLog[j].count > 0
            /\ Len(allIssues) = Collected(PageLog))
    /\ [][Len(PageLog') <= Len(PageLog) + 1]_vars

\* C29 witness: three pages of a fetch were requested, at 0, L and 2L
C29_Witness ==
    /\ op = "fetch" /\ Len(PageLog) = 3
    /\ PageLog[2].start = Limit(provider) /\ PageLog[3].start = 2 * Limit(provider)

\* C30: when the FoD vulnerabilities-page request at offset o fails, the error
\* of fetchReportData names o, the offset of the failed request.
C30_ErrorNamesFailedOffset ==
    (provider = "fod" /\ op = "fetch" /\ Len(PageLog) > 0 /\ Failed(PageLog[Len(PageLog)])) =>
        /\ result.kind = "thrown"
        /\ StartsWith(result.error,
                      "Failed to fetch vulnerabilities at offset "
                          \o ToString(PageLog[Len(PageLog)].start) \o ": ")

\* C30 witness: the second page, requested at offset 50, failed and the error
\* names 50
C30_Witness ==
    /\ provider = "fod" /\ op = "fetch" /\ Len(PageLog) = 2 /\ Failed(PageLog[2])
    /\ PageLog[2].start = FoDLimit
    /\ StartsWith(result.error, "Failed to fetch vulnerabilities at offset 50: ")

(***************************************************************************)
(* Properties of the lookups, of the token and of the paging               *)
(***************************************************************************)
\* the lookup `what` resolved no identifier
Unresolved(what) == IF what = "app" THEN applicationId = 0 ELSE versionId = 0

\* what the enumeration request that follows lookup k must have led to: a
\* failure result that lists the names when the request succeeded, and the
\* generic not-found message when it failed
EnumeratedAfter(k) ==
    /\ Len(log) = k + 1
    /\ log[k + 1].what = "enumerate"
    /\ result.kind = "validation" /\ ~result.success
    /\ includes(result.error, "not found")
    /\ ~includes(result.error, "Validation failed")
    /\ IF Failed(log[k + 1]) THEN ~includes(result.error, "Available")
       ELSE /\ includes(result.error, "Available")
            /\ log[k + 1].shape = "list" /\ log[k + 1].count > 0
                   => includes(result.error, ReqVersion)

\* C31: for both providers, an application lookup or a version/release
\* lookup of validateApplicationAndVersion that finds no match is followed
\* by one request enumerating the available names; the result is a failure
\* that lists the names when that request succeeded and carries the generic
\* not-found message when it failed.
C31_NoMatchEnumerates ==
    (op = "validate" /\ pc = "done") =>
        \A k \in 1..Len(log) :
            (log[k].what \in { "app", "version" } /\ ~Failed(log[k]) /\ Unresolved(log[k].what))
                => EnumeratedAfter(k)

\* what holds of C31: a version/release search that returned nothing is
\* followed by the enumeration, whose failure is swallowed
C31_EmptyVersionSearchEnumerates ==
    (op = "validate" /\ pc = "done") =>
        \A k \in 1..Len(log) :
            (log[k].what = "version" /\ ~Failed(log[k])
             /\ (log[k].shape # "list" \/ log[k].count = 0))
                => EnumeratedAfter(k)

\* an application search returned nothing and no enumeration followed
C31_AppNotEnumerated ==
    /\ op = "validate" /\ pc = "done" /\ Len(log) = 1
    /\ log[1].what = "app" /\ ~Failed(log[1]) /\ log[1].count = 0

\* C32: every FoD API request goes out with an access token for which
\* isValid() holds at that moment, whatever expires_in the token endpoint
\* granted; a token that is absent or inside the buffer is replaced by a
\* token exchange before the request is sent.
C32_RequestsCarryValidToken ==
    apiRequest.kind = "sent" =>
        /\ apiRequest.validAtSend
        /\ ~apiRequest.validBefore => apiRequest.exchanged

\* what holds of C32: a request is sent with a stored token, after a token
\* exchange whenever isValid() was false
C32_ExchangedBeforeSend ==
    apiRequest.kind = "sent" =>
        /\ apiRequest.Authorization = "Bearer " \o accessToken.text
        /\ accessToken.text # ""
        /\ ~apiRequest.validBefore => apiRequest.exchanged

\* a request went out right after an exchange that granted a token of 240
\* seconds, which isValid() rejects
C32_SentInsideBuffer ==
    /\ apiRequest.kind = "sent" /\ apiRequest.exchanged
    /\ apiRequest.expires_in = 240 /\ ~apiRequest.validAtSend

\* C33: a failed FoD authenticate() or refresh() leaves the stored access
\* token and expiry as they were; the two are replaced only by a successful
\* token exchange, so either both are set or neither is.
C33_TokenAndExpiryTogether ==
    /\ [](strategy = "fod" => (Truthy(accessToken) <=> tokenExpiry.type = "date"))
    /\ [][strategy = "fod" =>
            /\ authResult'.kind = "thrown" => UNCHANGED <<accessToken, tokenExpiry>>
            /\ (accessToken' # accessToken \/ tokenExpiry' # tokenExpiry)
                   => authResult'.kind = "ok" /\ tokenRequests' = tokenRequests + 1]_vars

\* C33 witness: a token exchange failed while a token was held, and the
\* token and its expiry are still stored
C33_Witness ==
    /\ strategy = "fod" /\ granted.at >= 0
    /\ authResult.kind = "thrown" /\ authResult.requests = 1
    /\ Truthy(accessToken) /\ tokenExpiry = Date(granted.at + granted.expires_in * 1000)

\* ceil(a / b)
CeilDiv(a, b) == (a + b - 1) \div b

\* C34: whatever the backend answers, one fetchReportData sends at most
\* ceil(maxIssues / L) issues-page requests (L = 100 for SSC, 50 for FoD) and
\* then ends, returning a ReportData or failing.
C34_BoundedPaging ==
    /\ [](op = "fetch" => Len(PageLog) <= CeilDiv(maxIssues, Limit(provider)))
    /\ (op = "fetch" => <>(pc = "done" /\ result.kind \in { "report", "thrown" }))

\* C34 witness: a FoD fetch capped at 75 ended after its second page request
C34_Witness ==
    /\ provider = "fod" /\ op = "fetch" /\ pc = "done"
    /\ maxIssues = FoDLimit + 25
    /\ Len(PageLog) = 2 /\ Len(PageLog) = CeilDiv(maxIssues, FoDLimit)

\* the entry a provider takes from a search response for `name`: the first
\* entry for SSC, the first entry of that name for FoD; 0 if there is none
Chosen(prov, json, name) ==
    IF Missing(json) THEN 0
    ELSE IF prov = "ssc" THEN json.list[1].id
    ELSE LET hits == { k \in 1..Len(json.list) : json.list[k].name = name }
         IN  IF hits = {} THEN 0
             ELSE json.list[CHOOSE k \in hits : \A h \in hits : k <= h].id

\* the version the application and version responses received so far
\* resolve to, 0 if they resolve to none
ResolvedVersion ==
    IF Chosen(provider, appResponse, ReqApp) = 0 THEN 0
    ELSE Chosen(provider, versionResponse, ReqVersion)

\* C35: on the same application and version responses, the name resolution
\* of fetchReportData succeeds exactly when validateApplicationAndVersion
\* returns success, and ReportData.projectVersionId is then the version
\* ValidationResult.versionId names: both are decided by the same function
\* of the two responses.
C35_FetchResolvesAsValidate ==
    /\ (op = "validate" /\ pc = "done") =>
           /\ result.success <=> ResolvedVersion # 0
           /\ result.success => result.versionId.text = ToString(ResolvedVersion)
    /\ (op = "fetch" /\ pc \notin { "app", "version" }) =>
           /\ (pc = "done" /\ Len(log) <= 2 /\ result.kind = "thrown") <=> ResolvedVersion = 0
           /\ result.kind = "report" => result.projectVersionId.text = ToString(ResolvedVersion)

\* C35 witness: a FoD fetch returned a report for the release 7, the exact
\* match that came second in the release response
C35_Witness ==
    /\ provider = "fod" /\ op = "fetch" /\ pc = "done" /\ result.kind = "report"
    /\ Len(versionResponse.list) = 2 /\ versionResponse.list[2].name = ReqVersion
    /\ ResolvedVersion = 7 /\ result.projectVersionId.text = "7"

(***************************************************************************)
(* The outcome of the task (checked under TaskSpec)                        *)
(***************************************************************************)
\* the connection validation, the name resolution with a versionId and the
\* fetch all succeeded
AllSucceeded ==
    /\ calls = ProviderOperations
    /\ connectionResult.success
    /\ appVersionResult.success /\ Truthy(appVersionResult.versionId)
    /\ reportData.kind = "report" /\ fetchError = ""

\* the report attachment was published
ReportAttached == \E i \in 1..Len(attachments) : attachments[i] = "report"

\* C36: with validation enabled, a run whose inputs were accepted ends
\* Succeeded if the connection validation, the name resolution (with a
\* versionId) and the fetch all succeeded, and SucceededWithIssues if not;
\* in every run the report attachment is published iff fetchReportData
\* returned a ReportData.
C36_TaskOutcome ==
    /\ (~SkipRequested /\ tpc = "done" /\ InputsAccepted) =>
           taskResult.result = (IF AllSucceeded THEN "Succeeded" ELSE "SucceededWithIssues")
    /\ tpc = "done" => (ReportAttached <=> reportData.kind = "report")
    /\ tpc # "done" => ~ReportAttached
    /\ reportData.kind = "report" <=>
           (Len(calls) = 3 /\ calls[3] = "fetchReportData" /\ fetchError = "")

\* C36 witness: the resolution succeeded without a versionId and the fetch
\* returned a report: SucceededWithIssues, with the report attached
C36_Witness ==
    /\ ~SkipRequested /\ tpc = "done"
    /\ appVersionResult.success /\ ~Truthy(appVersionResult.versionId)
    /\ reportData.kind = "report" /\ ReportAttached
    /\ taskResult.result = "SucceededWithIssues"


(***************************************************************************)
(* C37 and C38: the report panel                                           *)
(***************************************************************************)
\* the issues the panel should list for the data and the filter it shows
SelectedIssues == FilterIssues(panelReportData.issues, severityFilter)

\* C37: whenever the report panel is not loading, filteredIssues is
\* reportData.issues restricted to the issues whose (folderName, else
\* severity) equals severityFilter, and all of reportData.issues when the
\* filter is empty, after any sequence of filter changes, 'Reload Data'
\* clicks and build-changed reloads
C37_FilteredIssuesFollowFilter ==
    (panelMounted /\ ~panelLoading) => filteredIssues = SelectedIssues

\* a reload that completed while 'High' was selected: the panel lists every
\* issue of the report, among them the ones that are not 'High'
C37_ReloadDropsFilter ==
    /\ panelMounted /\ ~panelLoading /\ loads = {}
    /\ started >= 2
    /\ severityFilter = "High"
    /\ panelReportData.source = "report"
    /\ filteredIssues = panelReportData.issues
    /\ filteredIssues # SelectedIssues

\* the part of C37 that the code keeps: right after a filter change the list
\* is the selection
C37_FilterChangeApplies ==
    [][(panelLoading' = panelLoading /\ panelReportData' = panelReportData
        /\ started' = started /\ loads' = loads /\ panelMounted)
       => filteredIssues' = SelectedIssues']_vars

\* C38: once no loadReportData is waiting any more, the reportData, error and
\* config displayed are the ones written by the most recently started load:
\* a late completion of an earlier load never overwrites them
C38_LatestLoadDisplayed ==
    (panelMounted /\ loads = {}) =>
        /\ panelReportData.by = started
        /\ panelError.by = started
        /\ (panelReportData.source = "report" => panelConfig.by = started)

\* the first load completed after the load of the next build did: the panel
\* shows the report of build 1 while its client is the one of build 2
C38_EarlierLoadDisplayed ==
    /\ panelMounted /\ loads = {} /\ ~panelLoading
    /\ started = 2
    /\ panelClient.build = 2
    /\ panelReportData = LoadedReport(1, 1)
    /\ panelError.by = 1

====
